---------------------------- MODULE Spec2Model ----------------------------
(***************************************************************************)
(* Copy-trading replication engine (dimboknv/mex).                         *)
(*                                                                         *)
(* The module models six parts of the program, each translated from its    *)
(* Go source:                                                              *)
(*   - the session manager and the session gate                            *)
(*       (internal/mexc/copytrading/service.go),                           *)
(*   - the fan-out engine and its trade persistence                        *)
(*       (internal/mexc/copytrading/engine.go, types.go),                  *)
(*   - the push-stream client's order / stop-order correlation             *)
(*       (pkg/services/websocket/client.go),                               *)
(*   - the account store (internal/storage/web-storage.go),                *)
(*   - the mirror token registry (internal/api/handler.go),                *)
(*   - the websocket and mirror mode drivers and SetMode                   *)
(*       (internal/api/router.go and the copy-trading service).            *)
(*                                                                         *)
(* Spec        : the gate and the engine behind the mode drivers, for the  *)
(*               actions that name their symbol.                           *)
(* SpecCancel  : the actions that resolve master order ids to symbols.     *)
(* SpecDisable : the engine while the owner flips disabled flags.          *)
(* SpecSession : the session manager called directly, for every user.      *)
(* SpecPush    : the correlation table of one push-stream client.          *)
(* SpecStore   : the accounts table under concurrent store operations.     *)
(* SpecToken   : the token registry under concurrent handlers.             *)
(* SpecDriver  : the mode drivers under concurrent SetMode requests.       *)
(* SpecCache   : the symbol cache under its two writers.                   *)
(* SpecMirror  : the mirror driver called directly, with its requests.     *)
(* SpecIngress : the mirror HTTP ingress and the handlers around it.       *)
(* SpecFeed    : the push service turning frames into session actions.     *)
(* SpecStream  : one push stream from the frame to the action's fan-out.   *)
(* SpecLeverage: one slave task of OpenPosition and the order it sends.    *)
(* SpecConnect : the push clients' Connect and Disconnect, with timers.    *)
(***************************************************************************)
EXTENDS Integers, Sequences, FiniteSets, TLC

(***************************************************************************)
(* Bounds of the model.                                                    *)
(***************************************************************************)
\* users known to the session manager
MaxUsers == 2
\* Session objects ever allocated by startSession
MaxSessions == 2
\* rows of the accounts table
MaxAccounts == 3
\* master-side stop-order ids
MaxOrderIds == 2
\* length of the order-id list of one CancelStopOrder request
MaxCancelIds == 2
\* frames of each kind read from one push stream
MaxFrames == 2
\* concurrent SetMasterAccount / store requests
MaxRequests == 2
\* tokens ever generated by the token registry
MaxTokens == 3
\* push streams ever connected by the push-mode driver
MaxStreams == 2
\* writes made to the symbol cache by direct store calls
MaxWrites == 3
MaxInfos == 2
MaxConnects == 2

Users == 1..MaxUsers
Accounts == 1..MaxAccounts
OrderIds == 1..MaxOrderIds
Symbols == {"BTC_USDT", "ETH_USDT"}
\* the two mode tags a session is started with (its name)
Names == {"websocket", "mirror"}

VARIABLES
    \* ---- session manager (service.go) ----
    sessions,       \* Manager.sessions: userID -> Session handle (0: no entry)
    sessionObjs,    \* the Session objects allocated so far: handle -> fields
    stopped,        \* handles whose StopSession / StopAllSessions has returned
    ret,            \* the last Manager call and what it returned
    \* ---- engine (engine.go) ----
    dryRun,         \* Engine.dryRun
    accounts,       \* accounts table: id -> row
    stopOrderCache, \* master_stop_orders: <<userID, orderID>> -> symbol ("" = no row)
    pc,             \* position of the action in flight
    call,           \* the action in flight: handle, user, kind, arguments, error
    symbols,        \* the symbols the action fans out for
    todo,           \* indexes of symbols whose fan-out has not started
    fan,            \* the fan-out in progress (Engine.execute)
    result,         \* the ExecutionResult assembled so far
    trades,         \* trade rows written by the action in flight
    trade_details,  \* trade-detail rows written by the action in flight
    activity_log,   \* activity-log rows written by the action in flight
    save,           \* saveTrade's locals: loop index, err; the writes the store refused
    rest,           \* REST requests issued by the action in flight
    \* ---- account store (web-storage.go) ----
    seq,            \* sqlite_sequence of accounts: the last id AUTOINCREMENT gave out
    storeReqs,      \* SetMasterAccount calls between their two UPDATE statements
    \* ---- push-stream client (websocket/client.go) ----
    orderEvents,    \* the OrderEvents handled so far: their order ids
    timers,         \* the AfterFunc timer of each OrderEvent
    pendingOrders,  \* Client.pendingOrders: order id -> OrderEvent (0: no entry)
    stopEvents,     \* the StopOrderEvents handled so far
    delivered,      \* the calls made to the handlers of the client
    frames,         \* the frames readMessages has handled, in stream order
    running,        \* the handler calls that have not returned: <<goroutine, call>>
    pendingMu,      \* the goroutine holding Client.pendingMu ("" = free)
    \* ---- token registry (api/handler.go) ----
    tokens,         \* mirrorTokenManager.tokens: the entries [token, userID]
    issued,         \* the tokens GenerateToken has returned, oldest first
    tokReqs,        \* GetTokenForUser calls between their scan and GenerateToken
    got,            \* the tokens GetTokenForUser calls have generated and returned
    \* ---- mode drivers (services/copytrading) ----
    connections,    \* webSocketService.connections: userID -> stream (0: no entry)
    streams,        \* the push streams connected so far
    active,         \* mirrorService.active: the users marked active
    mirrorTokens,   \* mirrorService.tokens: the entries [token, userID]
    modeReqs,       \* SetMode calls in flight
    out,            \* the last driver call and what it returned
    \* ---- history ----
    cacheLog,       \* SpecCache: the committed writes of master_stop_orders, oldest first
    resp,           \* the last answer of HandleMirrorAPI and the goroutine it spawned
    feed,           \* SpecFeed: the last frame the push service has handled
    task,           \* SpecLeverage: the last slave task of OpenPosition that was run
    clients         \* SpecConnect: the push clients (connection, mutex, calls in progress)

sessVars == <<sessions, sessionObjs, stopped, ret>>
engVars  == <<pc, call, symbols, todo, fan, result, trades, trade_details,
              activity_log, save, rest>>
cfgVars  == <<dryRun, accounts, stopOrderCache>>
storeVars == <<seq, storeReqs>>
pushVars == <<orderEvents, timers, pendingOrders, stopEvents, delivered, frames,
              running, pendingMu>>
tokVars  == <<tokens, issued, tokReqs, got>>
drvVars  == <<connections, streams, active, mirrorTokens, modeReqs, out>>
apiVars  == <<tokVars, drvVars>>
auxVars  == <<cacheLog, resp, feed, task, clients>>
vars     == <<sessVars, engVars, cfgVars, storeVars, pushVars, apiVars, auxVars>>

\* the goroutine of readMessages; the callback of OrderEvent e's timer runs
\* on goroutine e
Reader == 0
\* pendingMu held by nobody
Free == -1

(***************************************************************************)
(* Session manager                                                         *)
(***************************************************************************)
ErrOtherName  == "session already started with another name"
ErrNotActive  == "session is not active"
ErrNotFound   == "session not found"

Handles == 1..Len(sessionObjs)

\* Session.isActive
isActive(h) == sessionObjs[h].active

\* Session.ensureActive: "" when the gate lets the call through
ensureActive(h) == IF ~sessionObjs[h].active THEN ErrNotActive ELSE ""

NoRet == [op |-> "none", userID |-> 0, name |-> "", had |-> "",
          session |-> 0, err |-> "", logs |-> <<>>]

\* name of the entry the map holds for the user ("" = none)
EntryName(u) == IF sessions[u] = 0 THEN "" ELSE sessionObjs[sessions[u]].name

\* Manager.startSession, reached with no entry for userID
startSession(userID, name) ==
    /\ Len(sessionObjs) < MaxSessions
    /\ sessionObjs' = Append(sessionObjs,
                             [userID |-> userID, name |-> name, active |-> TRUE])
    /\ sessions' = [sessions EXCEPT ![userID] = Len(sessionObjs) + 1]

\* CreateOrGetActiveSession starting a session whether or not one exists
CreateOrGetActiveSession_AlwaysStart(userID, name) ==
    /\ startSession(userID, name)
    /\ UNCHANGED stopped

\* Manager.CreateOrGetActiveSession: what the call does to the manager
CreateOrGetActiveSession(userID, name) ==
    /\ IF sessions[userID] # 0
       THEN UNCHANGED <<sessions, sessionObjs>>
       ELSE startSession(userID, name)
    /\ UNCHANGED stopped

\* CreateOrGetActiveSession handing out the user's session whatever its name
CreateOrGetReturn_AnyName(userID, name) ==
    IF sessions[userID] # 0
    THEN [session |-> sessions[userID], err |-> "", logs |-> <<>>]
    ELSE [session |-> Len(sessionObjs) + 1, err |-> "",
          logs |-> <<"copy_trading_start">>]

\* Manager.CreateOrGetActiveSession: what the call returns
CreateOrGetReturn(userID, name) ==
    IF sessions[userID] # 0
    THEN IF EntryName(userID) # name
         THEN [session |-> 0, err |-> ErrOtherName, logs |-> <<>>]
         ELSE IF ~isActive(sessions[userID])
         THEN [session |-> 0, err |-> ErrNotActive, logs |-> <<>>]
         ELSE [session |-> sessions[userID], err |-> "", logs |-> <<>>]
    ELSE [session |-> Len(sessionObjs) + 1, err |-> "",
          logs |-> <<"copy_trading_start">>]

\* Manager.GetSession (it changes nothing)
GetSession(userID, name) ==
    IF sessions[userID] = 0
    THEN [session |-> 0, err |-> ErrNotFound, logs |-> <<>>]
    ELSE IF EntryName(userID) # name
    THEN [session |-> 0, err |-> ErrOtherName, logs |-> <<>>]
    ELSE IF ~isActive(sessions[userID])
    THEN [session |-> 0, err |-> ErrNotActive, logs |-> <<>>]
    ELSE [session |-> sessions[userID], err |-> "", logs |-> <<>>]

\* StopSession dropping the map entry without clearing Session.active
StopSession_KeepActive(userID, name) ==
    IF sessions[userID] = 0
    THEN UNCHANGED <<sessions, sessionObjs, stopped>>
    ELSE /\ sessions' = [sessions EXCEPT ![userID] = 0]
         /\ stopped' = stopped \cup {sessions[userID]}
         /\ UNCHANGED sessionObjs

\* StopSession clearing Session.active without deleting the map entry
StopSession_KeepEntry(userID, name) ==
    IF sessions[userID] = 0
    THEN UNCHANGED <<sessions, sessionObjs, stopped>>
    ELSE /\ sessionObjs' = [sessionObjs EXCEPT ![sessions[userID]].active = FALSE]
         /\ stopped' = stopped \cup {sessions[userID]}
         /\ UNCHANGED sessions

\* Manager.StopSession: what the call does; the name is only logged, never compared
StopSession(userID, name) ==
    IF sessions[userID] = 0
    THEN UNCHANGED <<sessions, sessionObjs, stopped>>
    ELSE /\ sessionObjs' = [sessionObjs EXCEPT ![sessions[userID]].active = FALSE]
         /\ sessions' = [sessions EXCEPT ![userID] = 0]
         /\ stopped' = stopped \cup {sessions[userID]}

\* Manager.StopSession: what the call returns
StopReturn(userID, name) ==
    IF sessions[userID] = 0
    THEN [session |-> 0, err |-> ErrNotFound, logs |-> <<>>]
    ELSE [session |-> sessions[userID], err |-> "", logs |-> <<"copy_trading_stop">>]

\* Manager.StopAllSessions
StopAllSessions ==
    /\ sessionObjs' = [h \in Handles |->
                         IF \E u \in Users : sessions[u] = h
                         THEN [sessionObjs[h] EXCEPT !.active = FALSE]
                         ELSE sessionObjs[h]]
    /\ sessions' = [u \in Users |-> 0]
    /\ stopped' = stopped \cup {sessions[u] : u \in {v \in Users : sessions[v] # 0}}

(***************************************************************************)
(* Account store (web-storage.go), as read by the engine                   *)
(***************************************************************************)
NoAccount == [user_id |-> 0, is_master |-> FALSE, disabled |-> FALSE]

\* the ids of the table in ORDER BY id order
RowIds == [i \in 1..MaxAccounts |-> i]

\* WebStorage.GetMasterAccount: the rows the query may return (LIMIT 1 of them);
\* empty = sql.ErrNoRows
GetMasterAccount(userID) ==
    {a \in Accounts : accounts[a].user_id = userID /\ accounts[a].is_master}

\* GetSlaveAccounts without the "AND disabled = 0" clause
GetSlaveAccounts_AllSlaves(userID, includeDisabled) ==
    SelectSeq(RowIds, LAMBDA a : accounts[a].user_id = userID /\ ~accounts[a].is_master)

\* WebStorage.GetSlaveAccounts
GetSlaveAccounts(userID, includeDisabled) ==
    SelectSeq(RowIds, LAMBDA a : /\ accounts[a].user_id = userID
                                 /\ ~accounts[a].is_master
                                 /\ (includeDisabled \/ ~accounts[a].disabled))

\* WebStorage.UpdateDisabledStatus
UpdateDisabledStatus(userID, accountID, disabled) ==
    /\ accounts[accountID].user_id = userID
    /\ accounts' = [accounts EXCEPT ![accountID].disabled = disabled]
    /\ accounts' # accounts
    /\ UNCHANGED <<auxVars, dryRun, stopOrderCache>>

\* a request slot with no SetMasterAccount call in it
NoReq == [userID |-> 0, accountID |-> 0]

\* WebStorage.AddAccount: INSERT; id is AUTOINCREMENT, is_master and disabled
\* take their DEFAULT 0
AddAccount(userID) ==
    /\ seq < MaxAccounts
    /\ accounts' = [accounts EXCEPT ![seq + 1] =
                        [user_id |-> userID, is_master |-> FALSE, disabled |-> FALSE]]
    /\ seq' = seq + 1
    /\ UNCHANGED <<auxVars, apiVars, sessVars, engVars, pushVars, dryRun, stopOrderCache, storeReqs>>

\* WebStorage.DeleteAccount
DeleteAccount(userID, accountID) ==
    /\ accounts[accountID].user_id = userID
    /\ accounts' = [accounts EXCEPT ![accountID] = NoAccount]
    /\ UNCHANGED <<auxVars, apiVars, sessVars, engVars, pushVars, dryRun, stopOrderCache, seq,
                   storeReqs>>

\* WebStorage.SetMasterAccount, its first statement:
\* UPDATE accounts SET is_master = 0 WHERE user_id = ?
SetMasterAccountClear(r, userID, accountID) ==
    /\ storeReqs[r] = NoReq
    /\ accounts' = [a \in Accounts |->
                      IF accounts[a].user_id = userID
                      THEN [accounts[a] EXCEPT !.is_master = FALSE]
                      ELSE accounts[a]]
    /\ storeReqs' = [storeReqs EXCEPT ![r] = [userID |-> userID, accountID |-> accountID]]
    /\ UNCHANGED <<auxVars, apiVars, sessVars, engVars, pushVars, dryRun, stopOrderCache, seq>>

\* WebStorage.SetMasterAccount, its second statement:
\* UPDATE accounts SET is_master = 1 WHERE user_id = ? AND id = ?
\* (no row affected: "account not found")
SetMasterAccountSet(r) ==
    /\ storeReqs[r] # NoReq
    /\ accounts' = IF accounts[storeReqs[r].accountID].user_id = storeReqs[r].userID
                   THEN [accounts EXCEPT ![storeReqs[r].accountID].is_master = TRUE]
                   ELSE accounts
    /\ storeReqs' = [storeReqs EXCEPT ![r] = NoReq]
    /\ UNCHANGED <<auxVars, apiVars, sessVars, engVars, pushVars, dryRun, stopOrderCache, seq>>

(***************************************************************************)
(* Engine: per-slave tasks                                                 *)
(***************************************************************************)
Kinds == {"open_position", "close_position", "place_plan_order",
          "change_plan_price", "change_leverage", "cancel_stop_order",
          "cancel_stop_order_by_symbol"}

\* what the exchange answers to a slave task: its read (leverage, positions,
\* open stop orders) and its write (the POST)
ReadOutcomes  == {"ok", "empty", "err"}
WriteOutcomes == {"ok", "err"}

\* an AccountResult; Error is err.Error() of the exchange call that failed
Failed(acc, why)  == [AccountID |-> acc, Success |-> FALSE, Error |-> why, OrderID |-> ""]
Succeeded(acc, o) == [AccountID |-> acc, Success |-> TRUE, Error |-> "", OrderID |-> o]

\* the POST of a slave task: the result and the request count
Post(acc, wr, o) == IF wr = "ok" THEN [res |-> Succeeded(acc, o), posts |-> 1]
                    ELSE [res |-> Failed(acc, "write_failed"), posts |-> 1]
NoPost(r) == [res |-> r, posts |-> 0]

\* processOpenPosition placing the order before it looks at dryRun
processOpenPosition_PostFirst(acc, rd, wr) ==
    IF rd # "ok" THEN NoPost(Failed(acc, "read_failed"))
    ELSE Post(acc, wr, IF dryRun THEN "" ELSE "oid")

\* Engine.processOpenPosition (mexc.NewClient never returns an error)
processOpenPosition(acc, rd, wr) ==
    IF rd # "ok" THEN NoPost(Failed(acc, "read_failed"))
    ELSE IF dryRun THEN NoPost(Succeeded(acc, ""))
    ELSE Post(acc, wr, "oid")

\* Engine.processClosePosition; the read is Client.ClosePosition's GetPositions
processClosePosition(acc, rd, wr) ==
    IF dryRun THEN NoPost(Succeeded(acc, ""))
    ELSE IF rd = "err" THEN NoPost(Failed(acc, "read_failed"))
    ELSE IF rd = "empty" THEN NoPost(Succeeded(acc, ""))
    ELSE Post(acc, wr, "")

\* Engine.processPlacePlanOrder
processPlacePlanOrder(acc, rd, wr) ==
    IF dryRun THEN NoPost(Succeeded(acc, "")) ELSE Post(acc, wr, "")

\* Engine.processChangePlanPrice
processChangePlanPrice(acc, rd, wr) ==
    IF rd = "err" THEN NoPost(Failed(acc, "read_failed"))
    ELSE IF rd = "empty" THEN NoPost(Succeeded(acc, ""))
    ELSE IF dryRun THEN NoPost(Succeeded(acc, ""))
    ELSE Post(acc, wr, "")

\* Engine.processChangeLeverage
processChangeLeverage(acc, rd, wr) ==
    IF dryRun THEN NoPost(Succeeded(acc, "")) ELSE Post(acc, wr, "")

\* Engine.processCancelStopOrder
processCancelStopOrder(acc, rd, wr) ==
    IF rd = "err" THEN NoPost(Failed(acc, "read_failed"))
    ELSE IF rd = "empty" THEN NoPost(Succeeded(acc, ""))
    ELSE IF dryRun THEN NoPost(Succeeded(acc, ""))
    ELSE Post(acc, wr, "")

\* the fn each Engine action hands to Engine.execute
SlaveTask(kind, acc, rd, wr) ==
    CASE kind = "open_position"     -> processOpenPosition(acc, rd, wr)
      [] kind = "close_position"    -> processClosePosition(acc, rd, wr)
      [] kind = "place_plan_order"  -> processPlacePlanOrder(acc, rd, wr)
      [] kind = "change_plan_price" -> processChangePlanPrice(acc, rd, wr)
      [] kind = "change_leverage"   -> processChangeLeverage(acc, rd, wr)
      [] OTHER                      -> processCancelStopOrder(acc, rd, wr)

(***************************************************************************)
(* Engine: one action routed through a session                             *)
(***************************************************************************)
NoFan    == [k |-> 0, slaves |-> <<>>, pending |-> {}, res |-> <<>>]
NoResult == [TotalCount |-> 0, SuccessCount |-> 0, FailedCount |-> 0, Results |-> <<>>]
NoSave   == [i |-> 0, err |-> FALSE, failed |-> {}, status |-> ""]
NoRest   == [posts |-> 0, masterReads |-> 0, listed |-> [o \in OrderIds |-> ""]]
\* afterStop: the handle's Stop had returned when the action was invoked;
\* off: the accounts that were disabled at every slave-list read of the action
NoCall   == [session |-> 0, userID |-> 0, kind |-> "", symbol |-> "",
             orderIDs |-> <<>>, afterStop |-> FALSE, off |-> {}, fanErr |-> FALSE,
             err |-> ""]

\* the arguments an ingest driver can pass with each kind of action
Requests ==
    [kind : Kinds \ {"change_plan_price", "cancel_stop_order"},
     symbol : Symbols, orderIDs : {<<>>}]
    \cup [kind : {"change_plan_price"}, symbol : Symbols \cup {""},
          orderIDs : {<<i>> : i \in OrderIds}]
    \cup [kind : {"cancel_stop_order"}, symbol : {""},
          orderIDs : UNION {[1..n -> OrderIds] : n \in 1..MaxCancelIds}]

\* count of the results with the given Success
CountOf(res, ok) == Cardinality({i \in 1..Len(res) : res[i].Success = ok})

\* the action returns to its caller
Return(err) ==
    /\ pc' = "done"
    /\ call' = [call EXCEPT !.err = err]

\* Session.execute: the gate, then the Engine method
execute(h, req) ==
    /\ pc \in {"idle", "done"}
    /\ LET gate == ensureActive(h)
           c == [session |-> h, userID |-> sessionObjs[h].userID, kind |-> req.kind,
                 symbol |-> req.symbol, orderIDs |-> req.orderIDs,
                 afterStop |-> h \in stopped, off |-> Accounts, fanErr |-> FALSE,
                 err |-> gate]
       IN /\ call' = c
          /\ pc' = IF gate # "" THEN "done"
                   ELSE IF req.kind \in {"change_plan_price", "cancel_stop_order"}
                        THEN "resolve" ELSE "fanout"
          /\ symbols' = IF gate = "" /\ pc' = "fanout" THEN <<req.symbol>> ELSE <<>>
          /\ todo' = IF gate = "" /\ pc' = "fanout" THEN {1} ELSE {}
    /\ fan' = NoFan /\ result' = NoResult /\ save' = NoSave /\ rest' = NoRest
    /\ trades' = <<>> /\ trade_details' = <<>> /\ activity_log' = <<>>

\* an ingest driver invokes an action on the Session it holds
SessionExecute(h, req) ==
    /\ execute(h, req)
    /\ UNCHANGED <<auxVars, apiVars, sessVars, storeVars, pushVars, cfgVars>>

\* what GetOpenStopOrders on the master lists: orderID -> symbol ("" = not listed)
MasterOrders == [OrderIds -> Symbols \cup {""}]

\* INSERT ... ON CONFLICT DO NOTHING: the first symbol of a key stays
SaveStopOrder_KeepFirst(cache, userID, orderID, symbol) ==
    [cache EXCEPT ![<<userID, orderID>>] = IF @ = "" THEN symbol ELSE @]

\* WebStorage.SaveStopOrder: single-row upsert
SaveStopOrder(cache, userID, orderID, symbol) ==
    [cache EXCEPT ![<<userID, orderID>>] = symbol]

\* WebStorage.SaveStopOrders: transactional batch upsert
SaveStopOrders(cache, userID, orders) ==
    [key \in DOMAIN cache |->
        IF key[1] = userID /\ orders[key[2]] # "" THEN orders[key[2]] ELSE cache[key]]

\* a lookup that never finds the row
GetStopOrderSymbol_Miss(userID, orderID) == ""

\* WebStorage.GetStopOrderSymbol
GetStopOrderSymbol(userID, orderID) == stopOrderCache[<<userID, orderID>>]

\* the symbols of all the orders the master lists, asked for or not
MatchedSymbols_All(mo, missing) ==
    LET ids == SelectSeq([i \in 1..MaxOrderIds |-> i], LAMBDA i : mo[i] # "")
    IN [j \in 1..Len(ids) |-> mo[ids[j]]]

\* the symbols of the master orders whose id is among `missing`, one per order
MatchedSymbols(mo, missing) ==
    LET ids == SelectSeq([i \in 1..MaxOrderIds |-> i],
                         LAMBDA i : mo[i] # "" /\ \E j \in 1..Len(missing) : missing[j] = i)
    IN [j \in 1..Len(ids) |-> mo[ids[j]]]

\* steps 1-3 of Engine.ChangePlanPrice and 1-2 of Engine.CancelStopOrder:
\* resolve the master's order ids to symbols (request hint, cache, master API)
Resolve(api, mo, db) ==
    /\ pc = "resolve"
    /\ LET u == call.userID
           ids == call.orderIDs
           hit(i) == GetStopOrderSymbol(u, ids[i]) # ""
           cached == IF call.kind = "change_plan_price"
                     THEN IF call.symbol # "" THEN <<call.symbol>>
                          ELSE IF hit(1) THEN <<GetStopOrderSymbol(u, ids[1])>> ELSE <<>>
                     ELSE [j \in 1..Len(SelectSeq([i \in 1..Len(ids) |-> i], hit)) |->
                             GetStopOrderSymbol(u,
                                ids[SelectSeq([i \in 1..Len(ids) |-> i], hit)[j]])]
           missing == IF call.kind = "change_plan_price"
                      THEN IF cached = <<>> THEN ids ELSE <<>>
                      ELSE SelectSeq(ids, LAMBDA o : GetStopOrderSymbol(u, o) = "")
           listed == \E o \in OrderIds : mo[o] # ""
           found == cached \o MatchedSymbols(mo, missing)
       IN IF missing = <<>>
          THEN /\ symbols' = cached
               /\ todo' = 1..Len(cached)
               /\ pc' = "fanout"
               /\ UNCHANGED <<call, rest, stopOrderCache>>
          ELSE IF GetMasterAccount(u) = {}
          THEN /\ Return("failed to get master account")
               /\ UNCHANGED <<symbols, todo, rest, stopOrderCache>>
          ELSE IF api = "err"
          THEN /\ Return("failed to get master open orders")
               /\ rest' = [rest EXCEPT !.masterReads = @ + 1]
               /\ UNCHANGED <<symbols, todo, stopOrderCache>>
          ELSE /\ rest' = [rest EXCEPT !.masterReads = @ + 1, !.listed = mo]
               /\ stopOrderCache' = IF listed /\ db = "ok"
                                    THEN SaveStopOrders(stopOrderCache, u, mo)
                                    ELSE stopOrderCache
               /\ IF found = <<>>
                  THEN /\ Return("order not found")
                       /\ UNCHANGED <<symbols, todo>>
                  ELSE /\ symbols' = found
                       /\ todo' = 1..Len(found)
                       /\ pc' = "fanout"
                       /\ UNCHANGED call
    /\ UNCHANGED <<auxVars, apiVars, sessVars, storeVars, pushVars, dryRun, accounts, fan,
                   result, trades, trade_details,
                   activity_log, save>>

\* where the action goes once a fan-out has ended and `left` are still to run
AfterFan(left, failed) ==
    IF left # {} /\ ~(failed /\ call.kind # "cancel_stop_order")
    THEN /\ pc' = "fanout"
         /\ call' = [call EXCEPT !.fanErr = failed]
    ELSE IF failed
    THEN /\ pc' = "done"
         /\ call' = [call EXCEPT !.fanErr = TRUE, !.err = "failed to get slave accounts"]
    ELSE /\ pc' = "create_trade"
         /\ UNCHANGED call

\* Engine.getSlaves + the head of Engine.execute: read the master and the
\* enabled slaves, spawn one task per slave
StartFan(k, db) ==
    /\ pc = "fanout" /\ fan = NoFan /\ k \in todo
    /\ IF GetMasterAccount(call.userID) = {} \/ db = "err"
       THEN /\ todo' = todo \ {k}
            /\ AfterFan(todo \ {k}, TRUE)
            /\ UNCHANGED fan
       ELSE /\ fan' = [k |-> k, slaves |-> GetSlaveAccounts(call.userID, FALSE),
                       pending |-> {GetSlaveAccounts(call.userID, FALSE)[i] :
                                    i \in 1..Len(GetSlaveAccounts(call.userID, FALSE))},
                       res |-> <<>>]
            /\ call' = [call EXCEPT !.off = @ \cap {a \in Accounts : accounts[a].disabled}]
            /\ UNCHANGED <<todo, pc>>
    /\ UNCHANGED <<auxVars, apiVars, sessVars, storeVars, pushVars, cfgVars, symbols, result,
                   trades, trade_details,
                   activity_log, save, rest>>

\* a fan-out in which a failed task cancels the tasks still pending
RunTask_AbortOnFailure(acc, rd, wr) ==
    /\ pc = "fanout" /\ acc \in fan.pending
    /\ LET t == SlaveTask(call.kind, acc, rd, wr)
       IN /\ fan' = [fan EXCEPT !.pending = IF t.res.Success THEN @ \ {acc} ELSE {},
                                !.res = Append(@, t.res)]
          /\ rest' = [rest EXCEPT !.posts = @ + t.posts]
    /\ UNCHANGED <<auxVars, apiVars, sessVars, storeVars, pushVars, cfgVars, pc, call, symbols,
                   todo, result, trades,
                   trade_details, activity_log, save>>

\* one goroutine of Engine.execute: run fn(acc), append its result under mu
RunTask(acc, rd, wr) ==
    /\ pc = "fanout" /\ acc \in fan.pending
    /\ LET t == SlaveTask(call.kind, acc, rd, wr)
       IN /\ fan' = [fan EXCEPT !.pending = @ \ {acc}, !.res = Append(@, t.res)]
          /\ rest' = [rest EXCEPT !.posts = @ + t.posts]
    /\ UNCHANGED <<auxVars, apiVars, sessVars, storeVars, pushVars, cfgVars, pc, call, symbols,
                   todo, result, trades,
                   trade_details, activity_log, save>>

\* a CancelStopOrder that runs one fan-out per distinct symbol: the entries of
\* the same symbol still to run are dropped when a fan-out is merged
MergeFan_OncePerSymbol ==
    /\ pc = "fanout" /\ fan # NoFan /\ fan.pending = {}
    /\ result' = [TotalCount   |-> result.TotalCount + Len(fan.slaves),
                  SuccessCount |-> result.SuccessCount + CountOf(fan.res, TRUE),
                  FailedCount  |-> result.FailedCount + CountOf(fan.res, FALSE),
                  Results      |-> result.Results \o fan.res]
    /\ todo' = {k \in todo : symbols[k] # symbols[fan.k]}
    /\ fan' = NoFan
    /\ AfterFan({k \in todo : symbols[k] # symbols[fan.k]}, call.fanErr)
    /\ UNCHANGED <<auxVars, apiVars, sessVars, storeVars, pushVars, cfgVars, symbols, trades,
                   trade_details,
                   activity_log, save, rest>>

\* wg.Wait returns: Engine.execute hands back its ExecutionResult, which is the
\* action's result or, in CancelStopOrder, is added to it under mu
MergeFan ==
    /\ pc = "fanout" /\ fan # NoFan /\ fan.pending = {}
    /\ result' = [TotalCount   |-> result.TotalCount + Len(fan.slaves),
                  SuccessCount |-> result.SuccessCount + CountOf(fan.res, TRUE),
                  FailedCount  |-> result.FailedCount + CountOf(fan.res, FALSE),
                  Results      |-> result.Results \o fan.res]
    /\ todo' = todo \ {fan.k}
    /\ fan' = NoFan
    /\ AfterFan(todo \ {fan.k}, call.fanErr)
    /\ UNCHANGED <<auxVars, apiVars, sessVars, storeVars, pushVars, cfgVars, symbols, trades,
                   trade_details,
                   activity_log, save, rest>>

(***************************************************************************)
(* Engine.saveTrade and Engine.saveLog                                     *)
(***************************************************************************)
DbOutcomes == {"ok", "err"}

\* ExecutionResult.IsFullSuccess
IsFullSuccess(r) == r.FailedCount = 0
\* ExecutionResult.IsPartialSuccess
IsPartialSuccess(r) == r.SuccessCount > 0 /\ r.FailedCount > 0
\* ExecutionResult.IsFullFailure
IsFullFailure(r) == r.SuccessCount = 0 /\ r.TotalCount > 0

\* a derivation that files a partial success under "completed"
TradeStatus_NoPartial(r) == IF IsFullFailure(r) THEN "failed" ELSE "completed"

\* the status saveTrade derives from the ExecutionResult
TradeStatus(r) == IF IsFullFailure(r) THEN "failed"
                  ELSE IF IsPartialSuccess(r) THEN "partial"
                  ELSE "completed"

\* the models.Trade record each Engine action builds (Status is left unset)
TradeRecord ==
    [UserID |-> call.userID, Action |-> IF call.kind = "cancel_stop_order_by_symbol"
                                        THEN "cancel_stop_order" ELSE call.kind,
     Symbol |-> IF call.kind = "cancel_stop_order" THEN ""
                ELSE IF call.kind = "change_plan_price" THEN symbols[1]
                ELSE call.symbol,
     Status |-> ""]

\* errors.Join(e.tradeStorage.AddTradeDetail(...)): the error of this write
\* alone; what the loop had in err before is dropped
JoinDetailErr(prev, db) == db = "err"

\* saveTrade: tradeStorage.CreateTrade
CreateTrade(db) ==
    /\ pc = "create_trade"
    /\ IF db = "err"
       THEN /\ Return("failed to create trade record")
            /\ UNCHANGED <<trades, save>>
       ELSE /\ trades' = Append(trades, TradeRecord)
            /\ save' = [NoSave EXCEPT !.i = 1]
            /\ pc' = "details"
            /\ UNCHANGED call
    /\ UNCHANGED <<auxVars, apiVars, sessVars, storeVars, pushVars, cfgVars, symbols, todo,
                   fan, result, trade_details,
                   activity_log, rest>>

\* saveTrade: one iteration of the loop over result.Results
AddTradeDetail(db) ==
    /\ pc = "details" /\ save.i <= Len(result.Results)
    /\ LET r == result.Results[save.i]
       IN /\ trade_details' =
                IF db = "ok"
                THEN Append(trade_details,
                            [TradeID |-> Len(trades), AccountID |-> r.AccountID,
                             Status |-> IF r.Success THEN "success" ELSE "failed",
                             Error |-> r.Error, OrderID |-> r.OrderID])
                ELSE trade_details
          /\ save' = [save EXCEPT !.i = save.i + 1,
                                   !.err = JoinDetailErr(save.err, db),
                                   !.failed = IF db = "ok" THEN save.failed
                                              ELSE save.failed \cup {save.i}]
    /\ UNCHANGED <<auxVars, apiVars, sessVars, storeVars, pushVars, cfgVars, pc, call, symbols,
                   todo, fan, result, trades,
                   activity_log, rest>>

\* saveTrade: err != nil after the loop
DetailsFailed ==
    /\ pc = "details" /\ save.i > Len(result.Results) /\ save.err
    /\ Return("failed to save trade details")
    /\ UNCHANGED <<auxVars, apiVars, sessVars, storeVars, pushVars, cfgVars, symbols, todo,
                   fan, result, trades,
                   trade_details, activity_log, save, rest>>

\* saveTrade: tradeStorage.UpdateTradeStatus; a failure is only logged
UpdateTradeStatus(db) ==
    /\ pc = "details" /\ save.i > Len(result.Results) /\ ~save.err
    /\ trades' = IF db = "ok"
                 THEN [trades EXCEPT ![Len(trades)].Status = TradeStatus(result)]
                 ELSE trades
    /\ save' = [save EXCEPT !.status = db]
    /\ pc' = "log"
    /\ UNCHANGED <<auxVars, apiVars, sessVars, storeVars, pushVars, cfgVars, call, symbols,
                   todo, fan, result,
                   trade_details, activity_log, rest>>

\* Engine.saveLog, the tail of saveTrade
saveLog(db) ==
    /\ pc = "log"
    /\ IF db = "err"
       THEN /\ Return("failed to add activity log")
            /\ UNCHANGED activity_log
       ELSE /\ activity_log' = Append(activity_log,
                                      [UserID |-> call.userID, Level |-> "info",
                                       Action |-> TradeRecord.Action,
                                       s |-> result.SuccessCount,
                                       t |-> result.TotalCount])
            /\ Return("")
    /\ UNCHANGED <<auxVars, apiVars, sessVars, storeVars, pushVars, cfgVars, symbols, todo,
                   fan, result, trades,
                   trade_details, save, rest>>

(***************************************************************************)
(* Token registry (api/handler.go, mirrorTokenManager)                     *)
(***************************************************************************)
\* the entries of the registry that belong to a user
TokensOf(userID) == {mt \in tokens : mt.UserID = userID}

\* rand.Read + hex.EncodeToString: 128 random bits, a value no earlier call
\* has drawn
NewToken == Len(issued) + 1

\* GenerateToken with the deletion of the prior entry left out
GenerateToken_KeepOld(userID) ==
    /\ Len(issued) < MaxTokens
    /\ tokens' = tokens \cup {[Token |-> NewToken, UserID |-> userID]}
    /\ issued' = Append(issued, [Token |-> NewToken, UserID |-> userID])

\* mirrorTokenManager.GenerateToken, under m.mu: delete the first entry of
\* the user the map iteration meets, insert a new one, return its token
GenerateToken(userID) ==
    /\ Len(issued) < MaxTokens
    /\ \E old \in (IF TokensOf(userID) = {} THEN {[Token |-> 0, UserID |-> userID]}
                                            ELSE TokensOf(userID)) :
          tokens' = (tokens \ {old}) \cup {[Token |-> NewToken, UserID |-> userID]}
    /\ issued' = Append(issued, [Token |-> NewToken, UserID |-> userID])

\* mirrorTokenManager.ValidateToken: the user the token maps to (0: not ok)
ValidateToken(token) ==
    IF \E mt \in tokens : mt.Token = token
    THEN (CHOOSE mt \in tokens : mt.Token = token).UserID
    ELSE 0

\* a call of GenerateToken by a handler (HandleGetMirrorScript)
CallGenerateToken(userID) ==
    /\ GenerateToken(userID)
    /\ UNCHANGED <<auxVars, sessVars, engVars, cfgVars, storeVars, pushVars, drvVars, tokReqs,
                   got>>

\* mirrorTokenManager.GetTokenForUser, the scan under the read lock: return
\* the user's token if one is found, else go on to GenerateToken
GetTokenForUser(r, userID) ==
    /\ tokReqs[r] = 0
    /\ TokensOf(userID) = {}
    /\ tokReqs' = [tokReqs EXCEPT ![r] = userID]
    /\ UNCHANGED <<auxVars, sessVars, engVars, cfgVars, storeVars, pushVars, drvVars, tokens,
                   issued, got>>

\* GetTokenForUser, after the read lock is released: GenerateToken
GetTokenForUserGenerate(r) ==
    /\ tokReqs[r] # 0
    /\ GenerateToken(tokReqs[r])
    /\ got' = Append(got, [Token |-> NewToken, UserID |-> tokReqs[r]])
    /\ tokReqs' = [tokReqs EXCEPT ![r] = 0]
    /\ UNCHANGED <<auxVars, sessVars, engVars, cfgVars, storeVars, pushVars, drvVars>>

(***************************************************************************)
(* Mode drivers (services/copytrading: service, webSocketService,          *)
(* mirrorService)                                                          *)
(***************************************************************************)
ErrNoMaster    == "master account not set"
ErrConnect     == "failed to start websocket"
ErrStopSession == "failed to stop session"
ErrSameMode    == "mode already active"

\* (the drivers wrap the manager's errors, "failed to create session: %w";
\* out.err keeps the wrapped error)

\* a SetMode call: the mode asked for, the mode getCurrentMode found, and
\* where the call is ("stop": before stopCurrentMode, "start": before Start)
NoMode == [userID |-> 0, mode |-> "", current |-> "", pc |-> ""]
Modes == {"off", "websocket", "mirror"}

\* the last driver call (op, userID) with its error, the token and the log
\* requests it made; for service.StopAll also where it is (pc), the Session
\* objects that were active and the streams that had been connected when it
\* was called
NoOut == [op |-> "none", userID |-> 0, err |-> "", token |-> 0, logs |-> <<>>,
          pc |-> "", before |-> {}, opened |-> 0]
Out(op, userID, err, token, logs) ==
    [out EXCEPT !.op = op, !.userID = userID, !.err = err, !.token = token,
                !.logs = logs]

\* Manager.StopSession for each user of U, one after the other
StopSessions(U) ==
    /\ sessionObjs' = [h \in Handles |->
                         IF \E u \in U : sessions[u] = h
                         THEN [sessionObjs[h] EXCEPT !.active = FALSE]
                         ELSE sessionObjs[h]]
    /\ sessions' = [u \in Users |-> IF u \in U THEN 0 ELSE sessions[u]]
    /\ stopped' = stopped \cup {sessions[u] : u \in {v \in U : sessions[v] # 0}}

\* webSocketService.Start without the check for a master account
webSocketServiceStart_NoMasterCheck(userID, conn) ==
    /\ Len(streams) < MaxStreams
    /\ CreateOrGetActiveSession(userID, "websocket")
    /\ streams' = Append(streams, [userID |-> userID,
                                   session |-> CreateOrGetReturn(userID, "websocket").session,
                                   open |-> TRUE])
    /\ connections' = [connections EXCEPT ![userID] = Len(streams) + 1]
    /\ out' = Out("ws_start", userID, "", 0, CreateOrGetReturn(userID, "websocket").logs)
    /\ UNCHANGED <<auxVars, active, mirrorTokens>>

\* webSocketService.Start, under s.mu: verify the master, create or fetch the
\* session, connect a new push stream (conn: how Service.Start ends) and
\* store it under the user; a failed connect stops the session
webSocketServiceStart(userID, conn) ==
    LET r == CreateOrGetReturn(userID, "websocket")
    IN /\ IF GetMasterAccount(userID) = {}
          THEN /\ out' = Out("ws_start", userID, ErrNoMaster, 0, <<>>)
               /\ UNCHANGED <<sessions, sessionObjs, stopped, connections, streams>>
          ELSE IF r.err # ""
          THEN /\ out' = Out("ws_start", userID, r.err, 0, <<>>)
               /\ UNCHANGED <<sessions, sessionObjs, stopped, connections, streams>>
          ELSE IF conn = "err"
          THEN /\ sessions[userID] = 0 => Len(sessionObjs) < MaxSessions
               /\ sessionObjs' =
                     IF sessions[userID] = 0
                     THEN Append(sessionObjs, [userID |-> userID, name |-> "websocket",
                                               active |-> FALSE])
                     ELSE [sessionObjs EXCEPT ![sessions[userID]].active = FALSE]
               /\ sessions' = [sessions EXCEPT ![userID] = 0]
               /\ stopped' = stopped \cup {r.session}
               /\ out' = Out("ws_start", userID, ErrConnect, 0,
                             r.logs \o <<"copy_trading_stop">>)
               /\ UNCHANGED <<connections, streams>>
          ELSE /\ Len(streams) < MaxStreams
               /\ CreateOrGetActiveSession(userID, "websocket")
               /\ streams' = Append(streams, [userID |-> userID, session |-> r.session,
                                              open |-> TRUE])
               /\ connections' = [connections EXCEPT ![userID] = Len(streams) + 1]
               /\ out' = Out("ws_start", userID, "", 0, r.logs)
       /\ UNCHANGED <<active, mirrorTokens>>

\* webSocketService.Stop, under s.mu: disconnect the user's stream, stop the
\* session, delete the map entry; nothing if the user has no entry
webSocketServiceStop(userID) ==
    /\ IF connections[userID] = 0
       THEN /\ out' = Out("ws_stop", userID, "", 0, <<>>)
            /\ UNCHANGED <<sessions, sessionObjs, stopped, connections, streams>>
       ELSE /\ streams' = [streams EXCEPT ![connections[userID]].open = FALSE]
            /\ StopSession(userID, "websocket")
            /\ connections' = [connections EXCEPT ![userID] = 0]
            /\ out' = Out("ws_stop", userID,
                          IF StopReturn(userID, "websocket").err # ""
                          THEN ErrStopSession ELSE "",
                          0, StopReturn(userID, "websocket").logs)
    /\ UNCHANGED <<auxVars, active, mirrorTokens>>

\* the entries of mirrorService.tokens that belong to a user
MirrorTokensOf(userID) == {mt \in mirrorTokens : mt.UserID = userID}

\* mirrorService.getOrCreateTokenLocked: the token the call returns
getOrCreateTokenLocked(userID) ==
    IF MirrorTokensOf(userID) # {}
    THEN (CHOOSE mt \in MirrorTokensOf(userID) : TRUE).Token
    ELSE Cardinality(mirrorTokens) + 1

\* mirrorService.Start going on after CreateOrGetActiveSession has failed
mirrorServiceStart_IgnoreConflict(userID) ==
    /\ IF GetMasterAccount(userID) = {}
       THEN /\ out' = Out("mirror_start", userID, ErrNoMaster, 0, <<>>)
            /\ UNCHANGED <<sessions, sessionObjs, stopped, active, mirrorTokens>>
       ELSE /\ CreateOrGetActiveSession(userID, "mirror")
            /\ mirrorTokens' = mirrorTokens \cup
                   {[Token |-> getOrCreateTokenLocked(userID), UserID |-> userID]}
            /\ active' = active \cup {userID}
            /\ out' = Out("mirror_start", userID, "", getOrCreateTokenLocked(userID),
                          CreateOrGetReturn(userID, "mirror").logs)
    /\ UNCHANGED <<connections, streams>>

\* mirrorService.Start, under s.mu: verify the master, create or fetch the
\* session, get or mint the user's token, mark the user active
mirrorServiceStart(userID) ==
    LET r == CreateOrGetReturn(userID, "mirror")
    IN /\ IF GetMasterAccount(userID) = {}
          THEN /\ out' = Out("mirror_start", userID, ErrNoMaster, 0, <<>>)
               /\ UNCHANGED <<sessions, sessionObjs, stopped, active, mirrorTokens>>
          ELSE IF r.err # ""
          THEN /\ out' = Out("mirror_start", userID, r.err, 0, <<>>)
               /\ UNCHANGED <<sessions, sessionObjs, stopped, active, mirrorTokens>>
          ELSE /\ CreateOrGetActiveSession(userID, "mirror")
               /\ mirrorTokens' = mirrorTokens \cup
                      {[Token |-> getOrCreateTokenLocked(userID), UserID |-> userID]}
               /\ active' = active \cup {userID}
               /\ out' = Out("mirror_start", userID, "",
                             getOrCreateTokenLocked(userID), r.logs)
       /\ UNCHANGED <<connections, streams>>

\* mirrorService.Stop deleting the user's token with the session
mirrorServiceStop_DropToken(userID) ==
    /\ IF StopReturn(userID, "mirror").err # ""
       THEN /\ out' = Out("mirror_stop", userID, ErrStopSession, 0, <<>>)
            /\ UNCHANGED <<sessions, sessionObjs, stopped, active, mirrorTokens>>
       ELSE /\ StopSession(userID, "mirror")
            /\ active' = active \ {userID}
            /\ mirrorTokens' = mirrorTokens \ MirrorTokensOf(userID)
            /\ out' = Out("mirror_stop", userID, "", 0,
                          StopReturn(userID, "mirror").logs)
    /\ UNCHANGED <<connections, streams>>

\* mirrorService.Stop, under s.mu: stop the session, then clear the mark
mirrorServiceStop(userID) ==
    /\ IF StopReturn(userID, "mirror").err # ""
       THEN /\ out' = Out("mirror_stop", userID, ErrStopSession, 0, <<>>)
            /\ UNCHANGED <<sessions, sessionObjs, stopped, active>>
       ELSE /\ StopSession(userID, "mirror")
            /\ active' = active \ {userID}
            /\ out' = Out("mirror_stop", userID, "", 0,
                          StopReturn(userID, "mirror").logs)
    /\ UNCHANGED <<connections, streams, mirrorTokens>>


(***************************************************************************)
(* Spec: the gate and the engine, driven through the mode drivers          *)
(***************************************************************************)
\* mirrorService.Start / webSocketService.Start: verify the master, then
\* create or fetch the session
Start(userID, name) ==
    /\ GetMasterAccount(userID) # {}
    /\ CreateOrGetActiveSession(userID, name)
    /\ sessions' # sessions
    /\ UNCHANGED <<auxVars, apiVars, ret, engVars, cfgVars, storeVars, pushVars>>

\* mirrorService.Stop / webSocketService.Stop: stop the user's session
Stop(userID, name) ==
    /\ sessions[userID] # 0
    /\ StopSession(userID, name)
    /\ UNCHANGED <<auxVars, apiVars, ret, engVars, cfgVars, storeVars, pushVars>>

\* service.StopAll on shutdown
StopAll ==
    /\ \E u \in Users : sessions[u] # 0
    /\ StopAllSessions
    /\ UNCHANGED <<auxVars, apiVars, ret, engVars, cfgVars, storeVars, pushVars>>

\* the requests that name their symbol: no lookup of a master order id
DirectRequests == {r \in Requests : r.kind # "cancel_stop_order" /\ r.symbol # ""}

\* the accounts table the engine runs against: user 1 has enrolled every
\* account and made account 1 its master; the other users have enrolled none
InitAccounts ==
    [a \in Accounts |-> [user_id |-> 1, is_master |-> (a = 1), disabled |-> FALSE]]

\* handleUpdateAccountDisabled: the owner flips an account's disabled flag
\* while sessions run
SetDisabled(userID, accountID, disabled) ==
    /\ UpdateDisabledStatus(userID, accountID, disabled)
    /\ UNCHANGED <<auxVars, apiVars, sessVars, storeVars, pushVars, engVars>>

InitSessions ==
    /\ sessions = [u \in Users |-> 0]
    /\ sessionObjs = <<>>
    /\ stopped = {}
    /\ ret = NoRet

InitEngine ==
    /\ pc = "idle"
    /\ call = NoCall
    /\ symbols = <<>>
    /\ todo = {}
    /\ fan = NoFan
    /\ result = NoResult
    /\ trades = <<>>
    /\ trade_details = <<>>
    /\ activity_log = <<>>
    /\ save = NoSave
    /\ rest = NoRest

InitStore ==
    /\ seq = MaxAccounts
    /\ storeReqs = [r \in 1..MaxRequests |-> NoReq]

InitPush ==
    /\ orderEvents = <<>>
    /\ timers = <<>>
    /\ pendingOrders = [o \in OrderIds |-> 0]
    /\ stopEvents = <<>>
    /\ delivered = <<>>
    /\ frames = <<>>
    /\ running = {}
    /\ pendingMu = Free

InitTokens ==
    /\ tokens = {}
    /\ issued = <<>>
    /\ tokReqs = [r \in 1..MaxRequests |-> 0]
    /\ got = <<>>

InitDrivers ==
    /\ connections = [u \in Users |-> 0]
    /\ streams = <<>>
    /\ active = {}
    /\ mirrorTokens = {}
    /\ modeReqs = [r \in 1..MaxRequests |-> NoMode]
    /\ out = NoOut

NoResp == [n |-> 0, token |-> 0, readable |-> TRUE, path |-> "", status |-> 0,
           body |-> "", spawned |-> 0]

NoFeed == [n |-> 0, channel |-> "", arg |-> 0, orderID |-> 0, symbol |-> ""]

NoOrder == [symbol |-> "", side |-> 0, leverage |-> 0]

NoTask == [n |-> 0, acc |-> 0, req |-> NoOrder, api |-> "", leverages |-> <<>>,
           res |-> [AccountID |-> 0, Success |-> FALSE, Error |-> "", OrderID |-> ""],
           posts |-> 0, order |-> NoOrder]

\* a push client as websocket.New returns it: not connected, c.mu free
\* (mu: who holds c.mu; pc, err: the Connect call; reader: readMessages)
\* late: a handler was called while the client was not active
NoClient == [mu |-> "", active |-> FALSE, conn |-> FALSE, pc |-> "", err |-> "",
             reader |-> "", calls |-> 0, late |-> FALSE]

InitAux ==
    /\ cacheLog = <<>> /\ resp = NoResp /\ feed = NoFeed /\ task = NoTask
    /\ clients = [c \in 1..MaxStreams |-> NoClient]

Init ==
    /\ InitSessions
    /\ InitEngine
    /\ InitStore
    /\ InitPush
    /\ InitTokens
    /\ InitDrivers
    /\ InitAux
    /\ dryRun \in BOOLEAN
    /\ accounts = InitAccounts
    /\ stopOrderCache = [key \in Users \X OrderIds |-> ""]

\* the steps of an action that names its symbol: the fan-out and the records
FanOutNext ==
    \/ \E k \in todo, db \in DbOutcomes : StartFan(k, db)
    \/ \E a \in Accounts, rd \in ReadOutcomes, wr \in WriteOutcomes : RunTask(a, rd, wr)
    \/ MergeFan
    \/ \E db \in DbOutcomes : CreateTrade(db)
    \/ \E db \in DbOutcomes : AddTradeDetail(db)
    \/ DetailsFailed
    \/ \E db \in DbOutcomes : UpdateTradeStatus(db)
    \/ \E db \in DbOutcomes : saveLog(db)

EngineNext ==
    \/ \E api \in DbOutcomes, mo \in MasterOrders, db \in DbOutcomes : Resolve(api, mo, db)
    \/ FanOutNext

Next ==
    \/ \E u \in Users, n \in Names : Start(u, n)
    \/ \E u \in Users, n \in Names : Stop(u, n)
    \/ StopAll
    \/ \E h \in Handles, req \in DirectRequests : SessionExecute(h, req)
    \/ EngineNext

Spec == Init /\ [][Next]_vars

(***************************************************************************)
(* SpecDisable: the engine while the owner flips disabled flags            *)
(***************************************************************************)
NextDisable ==
    \/ \E u \in Users, n \in Names : Start(u, n)
    \/ \E u \in Users, a \in Accounts, d \in BOOLEAN : SetDisabled(u, a, d)
    \/ \E h \in Handles, req \in DirectRequests : SessionExecute(h, req)
    \/ EngineNext

SpecDisable == Init /\ [][NextDisable]_vars

(***************************************************************************)
(* SpecCancel: the actions that look their symbols up from master order ids *)
(***************************************************************************)
LookupRequests == Requests \ DirectRequests

NextCancel ==
    \/ \E u \in Users, n \in Names : Start(u, n)
    \/ \E h \in Handles, req \in LookupRequests : SessionExecute(h, req)
    \/ EngineNext

\* as Init, with account 2 the only enabled slave
InitCancel ==
    /\ InitSessions
    /\ InitEngine
    /\ InitStore
    /\ InitPush
    /\ InitTokens
    /\ InitDrivers
    /\ InitAux
    /\ dryRun \in BOOLEAN
    /\ accounts = [a \in Accounts |-> [InitAccounts[a] EXCEPT !.disabled = (a > 2)]]
    /\ stopOrderCache = [key \in Users \X OrderIds |-> ""]

SpecCancel == InitCancel /\ [][NextCancel]_vars

(***************************************************************************)
(* SpecSession: the session manager called directly, for every user        *)
(***************************************************************************)
\* a caller's record of one manager call
Returned(op, userID, name, r) ==
    [op |-> op, userID |-> userID, name |-> name, had |-> EntryName(userID),
     session |-> r.session, err |-> r.err, logs |-> r.logs]

CallCreateOrGet(userID, name) ==
    /\ CreateOrGetActiveSession(userID, name)
    /\ ret' = Returned("create", userID, name, CreateOrGetReturn(userID, name))
    /\ UNCHANGED <<auxVars, apiVars, engVars, cfgVars, storeVars, pushVars>>

CallGetSession(userID, name) ==
    /\ ret' = Returned("get", userID, name, GetSession(userID, name))
    /\ UNCHANGED <<auxVars, apiVars, sessions, sessionObjs, stopped, engVars, cfgVars,
                   storeVars, pushVars>>

CallStopSession(userID, name) ==
    /\ StopSession(userID, name)
    /\ ret' = Returned("stop", userID, name, StopReturn(userID, name))
    /\ UNCHANGED <<auxVars, apiVars, engVars, cfgVars, storeVars, pushVars>>

CallStopAllSessions ==
    /\ StopAllSessions
    /\ ret' = [NoRet EXCEPT !.op = "stop_all"]
    /\ UNCHANGED <<auxVars, apiVars, engVars, cfgVars, storeVars, pushVars>>

NextSession ==
    \/ \E u \in Users, n \in Names : CallCreateOrGet(u, n)
    \/ \E u \in Users, n \in Names : CallGetSession(u, n)
    \/ \E u \in Users, n \in Names : CallStopSession(u, n)
    \/ CallStopAllSessions

SpecSession == Init /\ [][NextSession]_vars

(***************************************************************************)
(* SpecPush: the order / stop-order correlation of one push-stream client  *)
(* (websocket/client.go).  readMessages handles one frame at a time; the   *)
(* timer callbacks run on goroutines of their own; all of them work on     *)
(* pendingOrders, and call the handlers, under pendingMu.                  *)
(***************************************************************************)
\* the OrderEvents read so far whose timer is in state st and whose id is o
TimersOf(o, st) ==
    {e \in 1..Len(orderEvents) : orderEvents[e] = o /\ timers[e] = st}

\* readMessages is between two frames: the handler it called has returned
ReaderIdle == \A x \in running : x[1] # Reader

\* the frames of a channel handled so far
FramesOf(channel) == {i \in 1..Len(frames) : frames[i].channel = channel}

\* a call of one of the client's handlers
Delivery(handler, order, stop, plan) ==
    [handler |-> handler, order |-> order, stop |-> stop, plan |-> plan]

\* Client.handleOrderEventMatching: a push.personal.order frame with order id o
handleOrderEventMatching(o) ==
    /\ ReaderIdle /\ pendingMu = Free
    /\ Len(orderEvents) < MaxFrames
    /\ frames' = Append(frames, [channel |-> "push.personal.order",
                                 n |-> Len(orderEvents) + 1])
    /\ orderEvents' = Append(orderEvents, o)
    /\ timers' = Append(timers, "armed")
    /\ pendingOrders' = [pendingOrders EXCEPT ![o] = Len(orderEvents) + 1]
    /\ UNCHANGED <<auxVars, apiVars, sessVars, engVars, cfgVars, storeVars, stopEvents, delivered,
                   running, pendingMu>>

\* the runtime fires the 1 s timer of OrderEvent e: its callback is started
TimerFire(e) ==
    /\ e \in 1..Len(timers) /\ timers[e] = "armed"
    /\ timers' = [timers EXCEPT ![e] = "fired"]
    /\ UNCHANGED <<auxVars, apiVars, sessVars, engVars, cfgVars, storeVars, orderEvents,
                   pendingOrders, stopEvents, delivered, frames, running, pendingMu>>

\* the time.AfterFunc callback of OrderEvent e takes pendingMu, looks the
\* entry up by e's order id and calls orderHandler with the order that entry
\* holds; it keeps pendingMu until the handler returns
afterFunc(e) ==
    /\ e \in 1..Len(timers) /\ timers[e] = "fired"
    /\ pendingMu = Free
    /\ timers' = [timers EXCEPT ![e] = "done"]
    /\ IF pendingOrders[orderEvents[e]] # 0
       THEN /\ pendingOrders' = [pendingOrders EXCEPT ![orderEvents[e]] = 0]
            /\ delivered' = Append(delivered,
                                   Delivery("order", pendingOrders[orderEvents[e]], 0, 0))
            /\ running' = running \cup {<<e, Len(delivered) + 1>>}
            /\ pendingMu' = e
       ELSE UNCHANGED <<pendingOrders, delivered, running, pendingMu>>
    /\ UNCHANGED <<orderEvents, stopEvents, frames>>

\* the callback, its handler's engine call left to HandlerReturn
TimerCallback(e) ==
    /\ afterFunc(e)
    /\ UNCHANGED <<auxVars, apiVars, sessVars, engVars, cfgVars, storeVars>>

\* handleStopOrderEventMatching calling orderHandler for an unmatched event
matchStopOrder_ToOrderHandler(o) ==
    /\ ReaderIdle /\ pendingMu = Free
    /\ Len(stopEvents) < MaxFrames
    /\ frames' = Append(frames, [channel |-> "push.personal.stop.order",
                                 n |-> Len(stopEvents) + 1])
    /\ stopEvents' = Append(stopEvents, [orderID |-> o, armed |-> TimersOf(o, "armed"),
                                         fired |-> TimersOf(o, "fired")])
    /\ IF pendingOrders[o] # 0
       THEN /\ timers' = [timers EXCEPT ![pendingOrders[o]] =
                                         IF @ = "armed" THEN "stopped" ELSE @]
            /\ pendingOrders' = [pendingOrders EXCEPT ![o] = 0]
            /\ delivered' = Append(delivered,
                                   Delivery("order", pendingOrders[o], Len(stopEvents) + 1, 0))
       ELSE /\ delivered' = Append(delivered,
                                   Delivery("order", 0, Len(stopEvents) + 1, 0))
            /\ UNCHANGED <<timers, pendingOrders>>
    /\ running' = running \cup {<<Reader, Len(delivered) + 1>>}
    /\ pendingMu' = Reader
    /\ UNCHANGED orderEvents

\* Client.handleStopOrderEventMatching: a push.personal.stop.order frame with
\* order id o, under pendingMu until the handler it calls returns.  armed /
\* fired record the same-id OrderEvents whose timer was armed / had fired
\* without its callback having run, when the frame came
matchStopOrder(o) ==
    /\ ReaderIdle /\ pendingMu = Free
    /\ Len(stopEvents) < MaxFrames
    /\ frames' = Append(frames, [channel |-> "push.personal.stop.order",
                                 n |-> Len(stopEvents) + 1])
    /\ stopEvents' = Append(stopEvents, [orderID |-> o, armed |-> TimersOf(o, "armed"),
                                         fired |-> TimersOf(o, "fired")])
    /\ IF pendingOrders[o] # 0
       THEN /\ timers' = [timers EXCEPT ![pendingOrders[o]] =
                                         IF @ = "armed" THEN "stopped" ELSE @]
            /\ pendingOrders' = [pendingOrders EXCEPT ![o] = 0]
            /\ delivered' = Append(delivered,
                                   Delivery("order", pendingOrders[o], Len(stopEvents) + 1, 0))
       ELSE /\ delivered' = Append(delivered,
                                   Delivery("stop", 0, Len(stopEvents) + 1, 0))
            /\ UNCHANGED <<timers, pendingOrders>>
    /\ running' = running \cup {<<Reader, Len(delivered) + 1>>}
    /\ pendingMu' = Reader
    /\ UNCHANGED orderEvents

\* the frame, its handler's engine call left to HandlerReturn
handleStopOrderEventMatching(o) ==
    /\ matchStopOrder(o)
    /\ UNCHANGED <<auxVars, apiVars, sessVars, engVars, cfgVars, storeVars>>

\* Client.handleMessage, case push.personal.stop.planorder: the frame goes
\* straight to stopPlanOrderHandler, without pendingMu
handleMessageStopPlanOrder ==
    /\ ReaderIdle
    /\ Cardinality(FramesOf("push.personal.stop.planorder")) < MaxFrames
    /\ frames' = Append(frames,
                        [channel |-> "push.personal.stop.planorder",
                         n |-> Cardinality(FramesOf("push.personal.stop.planorder")) + 1])
    /\ delivered' = Append(delivered,
                           Delivery("stop_plan", 0, 0,
                                    Cardinality(FramesOf("push.personal.stop.planorder")) + 1))
    /\ running' = running \cup {<<Reader, Len(delivered) + 1>>}
    /\ UNCHANGED <<auxVars, apiVars, sessVars, engVars, cfgVars, storeVars, orderEvents, timers,
                   pendingOrders, stopEvents, pendingMu>>

\* the handler called on goroutine g returns (Service.handleOrderEvent,
\* handleStopOrderEvent, handleStopPlanOrderEvent: the engine call they make
\* through the session has come back); a deferred Unlock releases pendingMu
handlerReturn(g, i) ==
    /\ <<g, i>> \in running
    /\ running' = running \ {<<g, i>>}
    /\ pendingMu' = IF pendingMu = g THEN Free ELSE pendingMu
    /\ UNCHANGED <<orderEvents, timers, pendingOrders, stopEvents, delivered, frames>>

\* the return of a handler whose engine call is not modelled
HandlerReturn(g, i) ==
    /\ handlerReturn(g, i)
    /\ UNCHANGED <<auxVars, apiVars, sessVars, engVars, cfgVars, storeVars>>

NextPush ==
    \/ \E o \in OrderIds : handleOrderEventMatching(o)
    \/ \E o \in OrderIds : handleStopOrderEventMatching(o)
    \/ handleMessageStopPlanOrder
    \/ \E e \in 1..MaxFrames : TimerFire(e)
    \/ \E e \in 1..MaxFrames : TimerCallback(e)
    \/ \E x \in running : HandlerReturn(x[1], x[2])

SpecPush == Init /\ [][NextPush]_vars

(***************************************************************************)
(* SpecStore: the accounts table under concurrent API requests             *)
(***************************************************************************)
InitStoreSpec ==
    /\ InitSessions
    /\ InitEngine
    /\ InitPush
    /\ InitTokens
    /\ InitDrivers
    /\ InitAux
    /\ dryRun = FALSE
    /\ accounts = [a \in Accounts |-> NoAccount]
    /\ stopOrderCache = [key \in Users \X OrderIds |-> ""]
    /\ seq = 0
    /\ storeReqs = [r \in 1..MaxRequests |-> NoReq]

NextStore ==
    \/ \E u \in Users : AddAccount(u)
    \/ \E u \in Users, a \in Accounts : DeleteAccount(u, a)
    \/ \E r \in 1..MaxRequests, u \in Users, a \in Accounts :
          SetMasterAccountClear(r, u, a)
    \/ \E r \in 1..MaxRequests : SetMasterAccountSet(r)
    \/ \E u \in Users, a \in Accounts, d \in BOOLEAN : SetDisabled(u, a, d)

SpecStore == InitStoreSpec /\ [][NextStore]_vars

(***************************************************************************)
(* SpecDriver: the mode drivers under concurrent SetMode requests and the  *)
(* shutdown (services/copytrading)                                         *)
(***************************************************************************)
\* service.getCurrentMode
getCurrentMode(userID) ==
    IF connections[userID] # 0 THEN "websocket"
    ELSE IF userID \in active THEN "mirror"
    ELSE "off"

drvFrame == <<sessions, sessionObjs, stopped, connections, streams, active,
              mirrorTokens>>

\* service.SetMode up to its first branch: read the current mode; the same
\* mode again ends the call
SetMode(r, userID, mode) ==
    /\ modeReqs[r] = NoMode
    /\ IF getCurrentMode(userID) = mode
       THEN /\ out' = Out("set_mode", userID,
                          IF mode = "off" THEN "" ELSE ErrSameMode, 0, <<>>)
            /\ UNCHANGED modeReqs
       ELSE /\ out' = Out("get_current_mode", userID, "", 0, <<>>)
            /\ modeReqs' = [modeReqs EXCEPT ![r] =
                               [userID |-> userID, mode |-> mode,
                                current |-> getCurrentMode(userID), pc |-> "stop"]]
    /\ UNCHANGED <<auxVars, drvFrame, ret, engVars, cfgVars, storeVars, pushVars, tokVars>>

\* service.SetMode, stopCurrentMode: stop the mode that was read
SetModeStop(r) ==
    /\ modeReqs[r].pc = "stop"
    /\ CASE modeReqs[r].current = "websocket" -> webSocketServiceStop(modeReqs[r].userID)
         [] modeReqs[r].current = "mirror" -> mirrorServiceStop(modeReqs[r].userID)
         [] OTHER -> /\ out' = Out("stop_current_mode", modeReqs[r].userID, "", 0, <<>>)
                     /\ UNCHANGED drvFrame
    /\ modeReqs' = [modeReqs EXCEPT ![r] =
                       IF out'.err # "" \/ modeReqs[r].mode = "off"
                       THEN NoMode ELSE [@ EXCEPT !.pc = "start"]]
    /\ UNCHANGED <<auxVars, ret, engVars, cfgVars, storeVars, pushVars, tokVars>>

\* service.SetMode, the last branch: start the mode asked for
SetModeStart(r, conn) ==
    /\ modeReqs[r].pc = "start"
    /\ IF modeReqs[r].mode = "websocket"
       THEN webSocketServiceStart(modeReqs[r].userID, conn)
       ELSE mirrorServiceStart(modeReqs[r].userID)
    /\ modeReqs' = [modeReqs EXCEPT ![r] = NoMode]
    /\ UNCHANGED <<auxVars, ret, engVars, cfgVars, storeVars, pushVars, tokVars>>

\* n copy_trading_stop logs
StopLogs(n) == [i \in 1..n |-> "copy_trading_stop"]

\* service.StopAll, first half: webSocketService.stopAll disconnects every
\* stream of the map, stops these users' sessions and empties the map
webSocketServiceStopAll ==
    /\ out.pc = ""
    /\ streams' = [i \in 1..Len(streams) |->
                     IF \E u \in Users : connections[u] = i
                     THEN [streams[i] EXCEPT !.open = FALSE] ELSE streams[i]]
    /\ StopSessions({u \in Users : connections[u] # 0})
    /\ connections' = [u \in Users |-> 0]
    /\ out' = [Out("stop_all_ws", 0, "", 0,
                   StopLogs(Cardinality({u \in Users :
                                           connections[u] # 0 /\ sessions[u] # 0})))
               EXCEPT !.pc = "ws_done",
                      !.before = {h \in Handles : sessionObjs[h].active},
                      !.opened = Len(streams)]
    /\ UNCHANGED <<auxVars, active, mirrorTokens, modeReqs, ret, engVars, cfgVars, storeVars,
                   pushVars, tokVars>>

\* service.StopAll, second half: mirrorService.stopAll stops the session of
\* every user marked active and clears the marks; StopAll returns
mirrorServiceStopAll ==
    /\ out.pc = "ws_done"
    /\ StopSessions(active)
    /\ active' = {}
    /\ out' = [Out("stop_all", 0, "", 0,
                   StopLogs(Cardinality({u \in active : sessions[u] # 0})))
               EXCEPT !.pc = ""]
    /\ UNCHANGED <<auxVars, connections, streams, mirrorTokens, modeReqs, ret, engVars, cfgVars,
                   storeVars, pushVars, tokVars>>

NextDriver ==
    \/ \E r \in 1..MaxRequests, u \in Users, m \in Modes : SetMode(r, u, m)
    \/ \E r \in 1..MaxRequests : SetModeStop(r)
    \/ \E r \in 1..MaxRequests, conn \in DbOutcomes : SetModeStart(r, conn)
    \/ webSocketServiceStopAll
    \/ mirrorServiceStopAll

SpecDriver == Init /\ [][NextDriver]_vars

(***************************************************************************)
(* SpecToken: the token registry under concurrent handlers                 *)
(***************************************************************************)
NextToken ==
    \/ \E u \in Users : CallGenerateToken(u)
    \/ \E r \in 1..MaxRequests, u \in Users : GetTokenForUser(r, u)
    \/ \E r \in 1..MaxRequests : GetTokenForUserGenerate(r)

SpecToken == Init /\ [][NextToken]_vars

(***************************************************************************)
(* SpecMirror: the mirror driver (mirrorService) called directly, with the *)
(* engine behind the sessions it starts                                    *)
(***************************************************************************)
\* the paths the browser script posts to, and one that is none of them
Paths == {"/order/create", "/planorder/place", "/stoporder/cancel",
          "/stoporder/change_plan_price", "/change_leverage", "/unknown"}

\* mirrorService.processRequest: the action a path stands for
KindOf(path) ==
    CASE path = "/order/create" -> "open_position"
      [] path = "/planorder/place" -> "place_plan_order"
      [] path = "/stoporder/cancel" -> "cancel_stop_order"
      [] path = "/stoporder/change_plan_price" -> "change_plan_price"
      [] path = "/change_leverage" -> "change_leverage"
      [] OTHER -> ""

\* the request the parsers build from a well-formed body
RequestOf(path) ==
    [kind |-> KindOf(path),
     symbol |-> IF KindOf(path) \in {"cancel_stop_order", "change_plan_price"}
                THEN "" ELSE "BTC_USDT",
     orderIDs |-> IF KindOf(path) \in {"cancel_stop_order", "change_plan_price"}
                  THEN <<1>> ELSE <<>>]

Bodies == {"ok", "malformed"}

\* mirrorService.ValidateToken: the user of the token, 0 when there is none
mirrorValidateToken(token) ==
    IF \E mt \in mirrorTokens : mt.Token = token
    THEN (CHOOSE mt \in mirrorTokens : mt.Token = token).UserID
    ELSE 0

ErrInvalidToken == "invalid token"
ErrUnknownPath  == "unknown mirror path"
ErrParse        == "failed to parse"

\* ProcessRequest failing a request whose mirror session is not active
ProcessRequest_RejectInactive(token, path, body) ==
    LET u == mirrorValidateToken(token)
    IN /\ u # 0 /\ GetSession(u, "mirror").err # ""
       /\ out' = Out("process", u, GetSession(u, "mirror").err, token, <<>>)
       /\ UNCHANGED <<engVars, sessVars, cfgVars, storeVars, pushVars, tokVars,
                      connections, streams, active, mirrorTokens, modeReqs, auxVars>>

\* mirrorService.ProcessRequest: validate the token, look the mirror session
\* up, drop the request when there is none, else dispatch on the path
ProcessRequest(token, path, body) ==
    LET u == mirrorValidateToken(token)
        g == GetSession(u, "mirror")
    IN /\ IF u = 0
          THEN /\ out' = Out("process", 0, ErrInvalidToken, token, <<>>)
               /\ UNCHANGED engVars
          ELSE IF g.err # ""
          THEN /\ out' = Out("process", u, "", token, <<>>)
               /\ UNCHANGED engVars
          ELSE IF KindOf(path) = ""
          THEN /\ out' = Out("process", u, ErrUnknownPath, token, <<>>)
               /\ UNCHANGED engVars
          ELSE IF body = "malformed"
          THEN /\ out' = Out("process", u, ErrParse, token, <<>>)
               /\ UNCHANGED engVars
          ELSE /\ execute(g.session, RequestOf(path))
               /\ out' = Out("dispatch", u, "", token, <<>>)
       /\ UNCHANGED <<sessVars, cfgVars, storeVars, pushVars, tokVars,
                      connections, streams, active, mirrorTokens, modeReqs, auxVars>>

\* mirrorService.Start called for a user
CallMirrorStart(userID) ==
    /\ mirrorServiceStart(userID)
    /\ UNCHANGED <<ret, engVars, cfgVars, storeVars, pushVars, tokVars, modeReqs,
                   auxVars>>

\* mirrorService.Stop called for a user
CallMirrorStop(userID) ==
    /\ mirrorServiceStop(userID)
    /\ UNCHANGED <<ret, engVars, cfgVars, storeVars, pushVars, tokVars, modeReqs,
                   auxVars>>

\* the paths SpecMirror posts to; the two stop-order paths start the lookups
\* that SpecCancel explores
DirectPaths == {p \in Paths : KindOf(p) \notin {"cancel_stop_order", "change_plan_price"}}

\* mirrorService.GetToken, under s.mu (service.GetMirrorScript)
CallGetToken(userID) ==
    /\ mirrorTokens' = mirrorTokens \cup
           {[Token |-> getOrCreateTokenLocked(userID), UserID |-> userID]}
    /\ out' = Out("get_token", userID, "", getOrCreateTokenLocked(userID), <<>>)
    /\ UNCHANGED <<sessVars, engVars, cfgVars, storeVars, pushVars, tokVars,
                   connections, streams, active, modeReqs, auxVars>>

NextMirror ==
    \/ \E u \in Users : CallMirrorStart(u)
    \/ \E u \in Users : CallGetToken(u)
    \/ \E u \in Users : CallMirrorStop(u)
    \/ \E t \in 1..MaxUsers + 1, p \in DirectPaths, b \in Bodies :
          ProcessRequest(t, p, b)
    \/ FanOutNext

SpecMirror == Init /\ [][NextMirror]_vars

(***************************************************************************)
(* SpecIngress: the mirror HTTP ingress (api/mirror.go) with the handlers  *)
(* that start and stop the mirror session and issue tokens                 *)
(***************************************************************************)
SuccessBody == "{\"success\":true}"
IgnoredBody == "{\"success\":true,\"ignored\":true}"

\* HandleMirrorAPI reading the body before it looks the session up
mirrorAPIAnswer_BodyFirst(token, readable) ==
    LET u == ValidateToken(token)
    IN IF token = 0 \/ u = 0
       THEN [status |-> 401, body |-> "", spawned |-> 0]
       ELSE IF ~readable
       THEN [status |-> 400, body |-> "", spawned |-> 0]
       ELSE IF GetSession(u, "mirror").err # ""
       THEN [status |-> 200, body |-> IgnoredBody, spawned |-> 0]
       ELSE [status |-> 200, body |-> SuccessBody,
             spawned |-> GetSession(u, "mirror").session]

\* Handler.HandleMirrorAPI: the status and body it writes and the session it
\* hands to the goroutine (token 0: no X-Mirror-Token header)
mirrorAPIAnswer(token, readable) ==
    LET u == ValidateToken(token)
    IN IF token = 0 \/ u = 0
       THEN [status |-> 401, body |-> "", spawned |-> 0]
       ELSE IF GetSession(u, "mirror").err # ""
       THEN [status |-> 200, body |-> IgnoredBody, spawned |-> 0]
       ELSE IF ~readable
       THEN [status |-> 400, body |-> "", spawned |-> 0]
       ELSE [status |-> 200, body |-> SuccessBody,
             spawned |-> GetSession(u, "mirror").session]

\* a POST under /api/platform/futures/
HandleMirrorAPI(token, readable, path) ==
    /\ resp.n < MaxRequests /\ resp.spawned = 0
    /\ LET a == mirrorAPIAnswer(token, readable)
       IN resp' = [n |-> resp.n + 1, token |-> token, readable |-> readable,
                   path |-> IF a.spawned # 0 THEN path ELSE "",
                   status |-> a.status, body |-> a.body, spawned |-> a.spawned]
    /\ UNCHANGED <<sessVars, engVars, cfgVars, storeVars, pushVars, apiVars, cacheLog, task, clients,
                   feed>>

\* Handler.processMirrorRequest, on its own goroutine: dispatch on the path
processMirrorRequest ==
    /\ resp.spawned # 0
    /\ resp' = [resp EXCEPT !.spawned = 0]
    /\ IF KindOf(resp.path) = ""
       THEN UNCHANGED engVars
       ELSE execute(resp.spawned, RequestOf(resp.path))
    /\ UNCHANGED <<sessVars, cfgVars, storeVars, pushVars, apiVars, cacheLog, task, clients, feed>>

\* Handler.HandleStartMirror: create or fetch the mirror session, then
\* GetTokenForUser, whose GenerateToken runs after the scan
HandleStartMirror(r, userID) ==
    /\ tokReqs[r] = 0
    /\ CreateOrGetActiveSession(userID, "mirror")
    /\ tokReqs' = IF CreateOrGetReturn(userID, "mirror").err = "" /\ TokensOf(userID) = {}
                  THEN [tokReqs EXCEPT ![r] = userID] ELSE tokReqs
    /\ UNCHANGED <<ret, engVars, cfgVars, storeVars, pushVars, drvVars, tokens, issued,
                   got, auxVars>>

\* Handler.HandleStopMirror
HandleStopMirror(userID) ==
    /\ StopSession(userID, "mirror")
    /\ UNCHANGED <<ret, apiVars, engVars, cfgVars, storeVars, pushVars, auxVars>>

\* the engine goes on from where processMirrorRequest leaves the action (Spec,
\* SpecMirror); here it stays in flight
NextIngress ==
    \/ \E u \in Users : HandleStartMirror(1, u)
    \/ GetTokenForUserGenerate(1)
    \/ \E u \in Users : HandleStopMirror(u)
    \/ \E u \in Users : CallGenerateToken(u)
    \/ \E t \in 0..MaxTokens, rd \in BOOLEAN, p \in DirectPaths :
          HandleMirrorAPI(t, rd, p)
    \/ processMirrorRequest

InitIngress == Init /\ dryRun = FALSE

SpecIngress == InitIngress /\ [][NextIngress]_vars

(***************************************************************************)
(* SpecFeed: the push service (wscopytrading.Service) turning the frames   *)
(* of its client into actions on its session.  The handlers are called on  *)
(* the read loop and return when the engine call has: a frame is handled   *)
(* when no action is in flight.  Order frames and their correlation are    *)
(* SpecPush's.                                                             *)
(***************************************************************************)
\* the sessions a push service was started on
FeedSessions == {h \in Handles : sessionObjs[h].name = "websocket"}

Frame(channel, arg, orderID, symbol) ==
    [n |-> feed.n + 1, channel |-> channel, arg |-> arg, orderID |-> orderID,
     symbol |-> symbol]

\* Client.handleMessage, case push.personal.position: the decoding and the
\* call of positionHandler are commented out, the frame is dropped
handleMessagePosition(h, state, symbol) ==
    /\ pc \in {"idle", "done"} /\ feed.n < MaxFrames
    /\ feed' = Frame("push.personal.position", state, 0, symbol)
    /\ UNCHANGED <<sessVars, engVars, cfgVars, storeVars, pushVars, apiVars, cacheLog, task, clients,
                   resp>>

\* Session.SaveStopOrder as the handlers use it: the row of the session's
\* user; its error is only logged
SessionSaveStopOrder(h, orderID, symbol, db) ==
    stopOrderCache' = IF db = "ok"
                      THEN SaveStopOrder(stopOrderCache, sessionObjs[h].userID,
                                         orderID, symbol)
                      ELSE stopOrderCache

\* fromWebSocketStopPlanOrder with the symbol left out of the request
fromWebSocketStopPlanOrder_NoSymbol(orderID, symbol) ==
    [kind |-> "change_plan_price", symbol |-> "", orderIDs |-> <<orderID>>]

\* fromWebSocketStopPlanOrder: the ChangePlanPriceRequest of a frame
fromWebSocketStopPlanOrder(orderID, symbol) ==
    [kind |-> "change_plan_price", symbol |-> symbol, orderIDs |-> <<orderID>>]

\* fromWebSocketStopOrder: the PlacePlanOrderRequest of a frame
fromWebSocketStopOrder(symbol) ==
    [kind |-> "place_plan_order", symbol |-> symbol, orderIDs |-> <<>>]

\* Service.handleStopPlanOrderEvent, called by handleMessage for a
\* push.personal.stop.planorder frame
handleStopPlanOrderEvent(h, isFinished, orderID, symbol, db) ==
    /\ feed.n < MaxFrames
    /\ feed' = Frame("push.personal.stop.planorder", isFinished, orderID, symbol)
    /\ SessionSaveStopOrder(h, orderID, symbol, db)
    /\ IF isFinished = 1
       THEN execute(h, [kind |-> "cancel_stop_order_by_symbol", symbol |-> symbol,
                        orderIDs |-> <<>>])
       ELSE execute(h, fromWebSocketStopPlanOrder(orderID, symbol))
    /\ UNCHANGED <<sessVars, dryRun, accounts, storeVars, pushVars, apiVars, cacheLog, task, clients,
                   resp>>

\* Service.handleStopOrderEvent, called by handleStopOrderEventMatching for a
\* push.personal.stop.order frame whose order id has no pending OrderEvent
handleStopOrderEvent(h, orderID, symbol, db) ==
    /\ feed.n < MaxFrames
    /\ pendingOrders[orderID] = 0
    /\ feed' = Frame("push.personal.stop.order", 0, orderID, symbol)
    /\ SessionSaveStopOrder(h, orderID, symbol, db)
    /\ execute(h, fromWebSocketStopOrder(symbol))
    /\ UNCHANGED <<sessVars, dryRun, accounts, storeVars, pushVars, apiVars, cacheLog, task, clients,
                   resp>>

\* PositionEvent.State: 3 is a closed position
PositionStates == {1, 3}

NextFeed ==
    \/ \E u \in Users : Start(u, "websocket")
    \/ \E u \in Users : Stop(u, "websocket")
    \/ \E h \in FeedSessions, st \in PositionStates, s \in Symbols :
          handleMessagePosition(h, st, s)
    \/ \E h \in FeedSessions, fin \in {0, 1}, o \in OrderIds, s \in Symbols,
          db \in DbOutcomes : handleStopPlanOrderEvent(h, fin, o, s, db)
    \/ \E h \in FeedSessions, o \in OrderIds, s \in Symbols, db \in DbOutcomes :
          handleStopOrderEvent(h, o, s, db)
    \/ EngineNext

InitFeed == Init /\ dryRun = FALSE

SpecFeed == InitFeed /\ [][NextFeed]_vars

(***************************************************************************)
(* SpecStream: one push stream from the frame to the action.  The client  *)
(* of user 1's push service correlates order and stop-order frames under   *)
(* pendingMu and calls the service's handlers, which run the action on the *)
(* session and return when the engine call has.  The session stays        *)
(* active; stopping it is Spec's and SpecFeed's.                           *)
(***************************************************************************)
\* the session the push service of user 1 was started on
StreamSessions == {h \in FeedSessions : sessionObjs[h].userID = 1}

\* copytrading.IsOpenOrder
IsOpenOrder(side) == side = 1 \/ side = 3

\* the sides of the order frames: open long, close long
OrderSides == {1, 4}

\* fromWebSocketOrder and the branch of Service.handleOrderEvent on the side
fromWebSocketOrder(side, symbol) ==
    [kind |-> IF IsOpenOrder(side) THEN "open_position" ELSE "close_position",
     symbol |-> symbol, orderIDs |-> <<>>]

\* the timer callback with Service.handleOrderEvent as the order handler;
\* side and symbol are those of the pending order
streamTimerCallback(h, e, side, symbol) ==
    /\ Len(delivered) < MaxFrames
    /\ afterFunc(e)
    /\ IF pendingOrders[orderEvents[e]] # 0
       THEN execute(h, fromWebSocketOrder(side, symbol))
       ELSE UNCHANGED engVars
    /\ UNCHANGED <<sessVars, cfgVars, storeVars, apiVars, auxVars>>

\* Client.handleMessage, case push.personal.stop.order: the correlation,
\* then Service.handleStopOrderEvent for an unmatched event and
\* Service.handleOrderEvent for the merged order of a matched one
handleMessageStopOrder(h, o, side, symbol, db) ==
    /\ Len(delivered) < MaxFrames
    /\ matchStopOrder(o)
    /\ feed' = Frame("push.personal.stop.order", 0, o, symbol)
    /\ IF delivered'[Len(delivered')].handler = "stop"
       THEN /\ SessionSaveStopOrder(h, o, symbol, db)
            /\ execute(h, fromWebSocketStopOrder(symbol))
       ELSE /\ execute(h, fromWebSocketOrder(side, symbol))
            /\ UNCHANGED stopOrderCache
    /\ UNCHANGED <<sessVars, dryRun, accounts, storeVars, apiVars, cacheLog, task, clients, resp>>

\* the handler returns when its engine call has; it drops the result (only
\* the error is logged), and the records of the call, which the model keeps
\* per action, go with it
streamHandlerReturn(g, i) ==
    /\ pc = "done"
    /\ handlerReturn(g, i)
    /\ pc' = "idle" /\ call' = NoCall /\ symbols' = <<>> /\ todo' = {}
    /\ fan' = NoFan /\ result' = NoResult /\ save' = NoSave /\ rest' = NoRest
    /\ trades' = <<>> /\ trade_details' = <<>> /\ activity_log' = <<>>
    /\ UNCHANGED <<sessVars, cfgVars, storeVars, apiVars, auxVars>>

NextStream ==
    \/ Start(1, "websocket")
    \/ \E o \in OrderIds : handleOrderEventMatching(o)
    \/ \E e \in 1..MaxFrames : TimerFire(e)
    \/ \E h \in StreamSessions, e \in 1..MaxFrames, sd \in OrderSides, s \in Symbols :
          streamTimerCallback(h, e, sd, s)
    \/ \E h \in StreamSessions, o \in OrderIds, sd \in OrderSides, s \in Symbols,
          db \in DbOutcomes : handleMessageStopOrder(h, o, sd, s, db)
    \/ \E x \in running : streamHandlerReturn(x[1], x[2])
    \/ FanOutNext

SpecStream == InitFeed /\ [][NextStream]_vars

(***************************************************************************)
(* SpecLeverage: one slave task of OpenPosition with the leverage it reads *)
(* and the order it sends.  The task is a function of the request, of the  *)
(* engine's dryRun and of what the exchange answers to the slave.          *)
(***************************************************************************)
\* the leverages an account or a request can carry
Leverages == {5, 20}

\* models.LeverageInfo: PositionType 1 is long, 2 is short
LeverageInfos == [PositionType : {1, 2}, Leverage : Leverages]

\* what GetLeverage can list for a slave and a symbol
LeverageLists == UNION {[1..n -> LeverageInfos] : n \in 0..MaxInfos}

\* an OpenPositionRequest: side 1 opens long, side 3 opens short
OpenRequests == [symbol : Symbols, side : {1, 3}, leverage : Leverages]

\* the loop of GetLeverageForSide from entry i on: the leverage of the first
\* entry of the position type, 0 when there is none
RECURSIVE FindLeverage(_, _, _)
FindLeverage(leverages, positionType, i) ==
    IF i > Len(leverages) THEN 0
    ELSE IF leverages[i].PositionType = positionType THEN leverages[i].Leverage
    ELSE FindLeverage(leverages, positionType, i + 1)

\* Client.GetLeverageForSide: api is the outcome of GetLeverage; rd is "ok"
\* with the leverage, "err" for GetLeverage's error and "empty" for
\* "leverage not found for positionType"
GetLeverageForSide(api, leverages, side) ==
    IF api # "ok" THEN [rd |-> "err", leverage |-> 0]
    ELSE LET positionType == IF side = 3 THEN 2 ELSE 1
             found == FindLeverage(leverages, positionType, 1)
         IN IF found # 0 THEN [rd |-> "ok", leverage |-> found]
            ELSE [rd |-> "empty", leverage |-> 0]

\* PlaceOrder carrying the leverage of the request
PlaceOrder_RequestLeverage(req, currentLeverage) ==
    [symbol |-> req.symbol, side |-> req.side, leverage |-> req.leverage]

\* Client.PlaceOrder as processOpenPosition calls it: the order it POSTs
PlaceOrder(req, currentLeverage) ==
    [symbol |-> req.symbol, side |-> req.side, leverage |-> currentLeverage]

\* the slave accounts of user 1
OpenSlaves == {a \in Accounts : accounts[a].user_id = 1 /\ ~accounts[a].is_master}

\* Engine.processOpenPosition for one slave, with the order it sent
RunOpenPosition(acc, req, api, leverages, wr) ==
    /\ LET lv == GetLeverageForSide(api, leverages, req.side)
           t == processOpenPosition(acc, lv.rd, wr)
       IN task' = [n |-> 1, acc |-> acc, req |-> req, api |-> api,
                   leverages |-> leverages, res |-> t.res, posts |-> t.posts,
                   order |-> IF t.posts = 1 THEN PlaceOrder(req, lv.leverage)
                             ELSE NoOrder]
    /\ UNCHANGED <<sessVars, engVars, cfgVars, storeVars, pushVars, apiVars, cacheLog,
                   resp, feed, clients>>

NextLeverage ==
    \E acc \in OpenSlaves, req \in OpenRequests, api \in DbOutcomes,
       leverages \in LeverageLists, wr \in WriteOutcomes :
          RunOpenPosition(acc, req, api, leverages, wr)

SpecLeverage == Init /\ [][NextLeverage]_vars

(***************************************************************************)
(* SpecConnect: the connection of the push clients (websocket/client.go).  *)
(* Connect holds c.mu, a sync.Mutex, until it returns; Disconnect takes    *)
(* c.mu for its whole body; readMessages calls Disconnect when it ends.    *)
(***************************************************************************)
Clients == 1..MaxStreams

\* the callers of Disconnect: Connect after a failed login, the deferred call
\* of readMessages, Service.Stop
DisconnectCallers == {"connect", "reader", "stop"}

\* the frame of the clients' actions
connFrame == <<sessVars, engVars, cfgVars, storeVars, pushVars, apiVars, cacheLog, resp,
               feed, task>>

\* Client.Connect up to the dial: c.mu.Lock(), the check of c.active
ConnectLock(c) ==
    /\ clients[c].pc \in {"", "returned"} /\ clients[c].calls < MaxConnects
    /\ clients[c].mu = ""
    /\ clients' = [clients EXCEPT ![c] =
          IF @.active
          THEN [@ EXCEPT !.pc = "returned", !.err = "already connected",
                         !.calls = @ + 1]
          ELSE [@ EXCEPT !.mu = "connect", !.pc = "dial", !.err = "", !.calls = @ + 1]]
    /\ UNCHANGED connFrame

\* Client.Connect, the dial: an error is returned (the deferred Unlock runs);
\* else the client is active and readMessages is started
ConnectDial(c, dial) ==
    /\ clients[c].pc = "dial"
    /\ clients' = [clients EXCEPT ![c] =
          IF dial = "ok"
          THEN [@ EXCEPT !.conn = TRUE, !.active = TRUE, !.reader = "run",
                         !.pc = "login"]
          ELSE [@ EXCEPT !.pc = "returned", !.err = "dial error", !.mu = ""]]
    /\ UNCHANGED connFrame

\* Client.Connect, the login write after the 500 ms sleep: nil is returned,
\* or Connect goes on to errors.Join(login error, c.Disconnect())
ConnectLogin(c, wr) ==
    /\ clients[c].pc = "login"
    /\ clients' = [clients EXCEPT ![c] =
          IF wr = "ok"
          THEN [@ EXCEPT !.pc = "returned", !.err = "", !.mu = ""]
          ELSE [@ EXCEPT !.pc = "disconnect"]]
    /\ UNCHANGED connFrame

\* readMessages ends: ReadMessage failed, or c.done was closed; its deferred
\* Disconnect is to come
ReaderEnds(c) ==
    /\ clients[c].reader = "run"
    /\ clients' = [clients EXCEPT ![c].reader = "ending"]
    /\ UNCHANGED connFrame

\* the caller g is at a call of c.Disconnect()
AtDisconnect(c, g) ==
    CASE g = "connect" -> clients[c].pc = "disconnect"
      [] g = "reader"  -> clients[c].reader = "ending"
      [] OTHER         -> clients[c].pc = "returned" /\ clients[c].err = ""

\* a disconnect that stops the timers of the pending-order table and empties
\* the table
Disconnect_StopTimers(c, g) ==
    /\ AtDisconnect(c, g)
    /\ clients[c].mu = ""
    /\ LET d == IF clients[c].active
                THEN [clients[c] EXCEPT !.active = FALSE, !.conn = FALSE]
                ELSE clients[c]
       IN clients' = [clients EXCEPT ![c] =
             CASE g = "connect" -> [d EXCEPT !.pc = "returned", !.err = "login error"]
               [] g = "reader"  -> [d EXCEPT !.reader = ""]
               [] OTHER         -> [d EXCEPT !.err = "stopped"]]
    /\ timers' = IF c = 1 THEN [e \in 1..Len(timers) |->
                                  IF timers[e] = "armed" THEN "stopped" ELSE timers[e]]
                 ELSE timers
    /\ pendingOrders' = IF c = 1 THEN [o \in OrderIds |-> 0] ELSE pendingOrders
    /\ UNCHANGED <<sessVars, engVars, cfgVars, storeVars, apiVars, cacheLog, resp, feed,
                   task, orderEvents, stopEvents, delivered, frames, running, pendingMu>>

\* Client.Disconnect: c.mu.Lock(), the body, the deferred Unlock; then the
\* caller goes on: Connect returns the login error and releases c.mu,
\* readMessages is over
Disconnect(c, g) ==
    /\ AtDisconnect(c, g)
    /\ clients[c].mu = ""
    /\ LET d == IF clients[c].active
                THEN [clients[c] EXCEPT !.active = FALSE, !.conn = FALSE]
                ELSE clients[c]
       IN clients' = [clients EXCEPT ![c] =
             CASE g = "connect" -> [d EXCEPT !.pc = "returned", !.err = "login error"]
               [] g = "reader"  -> [d EXCEPT !.reader = ""]
               [] OTHER         -> [d EXCEPT !.err = "stopped"]]
    /\ UNCHANGED connFrame

\* readMessages of client 1 reads a push.personal.order frame and hands it to
\* handleOrderEventMatching
ReadOrderFrame(o) ==
    /\ clients[1].reader = "run" /\ clients[1].conn
    /\ handleOrderEventMatching(o)

\* the time.AfterFunc callback of OrderEvent e of client 1
clientTimerCallback(e) ==
    /\ afterFunc(e)
    /\ clients' = [clients EXCEPT ![1].late =
                      @ \/ (~clients[1].active /\ pendingOrders[orderEvents[e]] # 0)]
    /\ UNCHANGED <<sessVars, engVars, cfgVars, storeVars, apiVars, cacheLog, resp, feed,
                   task>>

NextConnect ==
    \/ \E c \in Clients : ConnectLock(c)
    \/ \E c \in Clients, dial \in DbOutcomes : ConnectDial(c, dial)
    \/ \E c \in Clients, wr \in WriteOutcomes : ConnectLogin(c, wr)
    \/ \E c \in Clients : ReaderEnds(c)
    \/ \E c \in Clients, g \in DisconnectCallers : Disconnect(c, g)
    \/ \E o \in OrderIds : ReadOrderFrame(o)
    \/ \E e \in 1..MaxFrames : TimerFire(e)
    \/ \E e \in 1..MaxFrames : clientTimerCallback(e)
    \/ \E x \in running : HandlerReturn(x[1], x[2])

SpecConnect == Init /\ [][NextConnect]_vars

(***************************************************************************)
(* The symbol cache (web-storage.go, master_stop_orders) written by its    *)
(* two store operations.  The table has the primary key (user_id,          *)
(* order_id); both writers are INSERT ... ON CONFLICT DO UPDATE.           *)
(***************************************************************************)
\* the batch that holds the one entry orderID -> symbol
OneOrder(orderID, symbol) == [o \in OrderIds |-> IF o = orderID THEN symbol ELSE ""]

\* a call of SaveStopOrder; a refused statement writes nothing
CallSaveStopOrder(userID, orderID, symbol, db) ==
    /\ Len(cacheLog) < MaxWrites
    /\ IF db = "ok"
       THEN /\ stopOrderCache' = SaveStopOrder(stopOrderCache, userID, orderID, symbol)
            /\ cacheLog' = Append(cacheLog, [op |-> "SaveStopOrder", userID |-> userID,
                                             orders |-> OneOrder(orderID, symbol)])
       ELSE UNCHANGED <<stopOrderCache, cacheLog>>
    /\ UNCHANGED <<sessVars, engVars, dryRun, accounts, storeVars, pushVars, apiVars,
                   resp, feed, task, clients>>

\* a call of SaveStopOrders; a statement refused inside the transaction, or a
\* refused commit, rolls the whole batch back
CallSaveStopOrders(userID, orders, db) ==
    /\ Len(cacheLog) < MaxWrites
    /\ IF db = "ok"
       THEN /\ stopOrderCache' = SaveStopOrders(stopOrderCache, userID, orders)
            /\ cacheLog' = Append(cacheLog, [op |-> "SaveStopOrders", userID |-> userID,
                                             orders |-> orders])
       ELSE UNCHANGED <<stopOrderCache, cacheLog>>
    /\ UNCHANGED <<sessVars, engVars, dryRun, accounts, storeVars, pushVars, apiVars,
                   resp, feed, task, clients>>

NextCache ==
    \/ \E u \in Users, o \in OrderIds, s \in Symbols, db \in DbOutcomes :
          CallSaveStopOrder(u, o, s, db)
    \/ \E u \in Users, mo \in MasterOrders, db \in DbOutcomes :
          CallSaveStopOrders(u, mo, db)

SpecCache == InitStoreSpec /\ [][NextCache]_vars

(***************************************************************************)
(* Properties                                                              *)
(***************************************************************************)
\* the live Session objects of a user
LiveSessions(u) == {h \in Handles : sessionObjs[h].userID = u /\ sessionObjs[h].active}

\* C1: under every interleaving of the four manager calls each user has at
\* most one session (one map entry, which is that user's live Session object,
\* and no other live object), and CreateOrGetActiveSession asking for another
\* mode than the existing session's returns the mode-conflict error and no
\* session, leaving the existing session in place.
ModeExclusivity ==
    /\ \A u \in Users :
         /\ Cardinality(LiveSessions(u)) <= 1
         /\ sessions[u] # 0 => LiveSessions(u) = {sessions[u]}
    /\ (ret.op = "create" /\ ret.had # "" /\ ret.had # ret.name)
         => /\ ret.err = ErrOtherName
            /\ ret.session = 0
            /\ EntryName(ret.userID) = ret.had

ModeExclusivityWitness ==
    /\ ret.op = "create" /\ ret.had = "mirror" /\ ret.name = "websocket"
    /\ ret.err = ErrOtherName
    /\ \E u \in Users : u # ret.userID /\ sessions[u] # 0

\* C2: an action invoked on a session handle after the Stop for that session
\* has returned fails with the session-inactive error, and nothing is done for
\* it: no trade row, no trade-detail row, no request to the exchange.
GateAfterStop ==
    call.afterStop =>
        /\ pc = "done"
        /\ call.err = ErrNotActive
        /\ trades = <<>> /\ trade_details = <<>> /\ activity_log = <<>>
        /\ result = NoResult /\ rest = NoRest

GateAfterStopWitness ==
    /\ call.afterStop /\ pc = "done" /\ call.kind = "open_position"
    /\ sessions[call.userID] \notin {0, call.session}

\* the number of enabled slaves of a user
EnabledSlaves(u) == Len(GetSlaveAccounts(u, FALSE))

\* the action in flight has returned without an error
Completed == pc = "done" /\ call.err = ""

\* C3: every engine action that completes for a user with N enabled slaves
\* has written exactly one trade row and exactly N trade-detail rows, and its
\* result has successes + failures = N.
FanOutCompleteness ==
    Completed =>
        /\ Len(trades) = 1
        /\ Len(trade_details) = EnabledSlaves(call.userID)
        /\ result.SuccessCount + result.FailedCount = EnabledSlaves(call.userID)

\* res holds exactly one result for account a
OnceEach(res, a) == Cardinality({i \in 1..Len(res) : res[i].AccountID = a}) = 1

\* the trade-detail row of a result
RowOf(r) == [TradeID |-> 1, AccountID |-> r.AccountID,
             Status |-> IF r.Success THEN "success" ELSE "failed",
             Error |-> r.Error, OrderID |-> r.OrderID]

StatusDerived ==
    LET st == trades[1].Status
    IN /\ st = "completed" <=> result.FailedCount = 0
       /\ st = "partial" <=> (result.SuccessCount > 0 /\ result.FailedCount > 0)
       /\ st = "failed" <=> (result.SuccessCount = 0 /\ result.TotalCount > 0)

AllResults ==
    {fan.res[i] : i \in 1..Len(fan.res)} \cup {result.Results[i] : i \in 1..Len(result.Results)}

\* C8 as stated: with dryRun set no POST is issued and every slave task
\* returns success with an empty order id
DryRunAllSucceed ==
    dryRun => /\ rest.posts = 0
              /\ \A r \in AllResults : r.Success /\ r.OrderID = ""

\* the kinds whose slave task reads from the exchange before it looks at dryRun
ReadFirstKinds == {"open_position", "change_plan_price", "cancel_stop_order",
                   "cancel_stop_order_by_symbol"}

\* C8: with dryRun set no action issues a POST for any slave, and every slave
\* task returns success with an empty order id unless the read it makes before
\* the dry-run check (leverage, open stop orders) fails, in which case it
\* returns a failure.
DryRunNoWrite ==
    dryRun => /\ rest.posts = 0
              /\ \A r \in AllResults :
                    \/ r.Success /\ r.OrderID = ""
                    \/ /\ ~r.Success /\ r.Error = "read_failed"
                       /\ call.kind \in ReadFirstKinds

DryRunNoWriteWitness ==
    /\ dryRun /\ Completed /\ call.kind = "open_position"
    /\ result.SuccessCount = 2 /\ Len(trade_details) = 2

\* C9: an account that is disabled when the action's fan-out reads its slave
\* list (include_disabled = false) receives no slave task and appears in no
\* result and no trade-detail row of that action, whatever the owner does to
\* the flags while the action runs.
DisabledIsolation ==
    \A a \in call.off :
        /\ a \notin fan.pending
        /\ \A r \in AllResults : r.AccountID # a
        /\ \A d \in 1..Len(trade_details) : trade_details[d].AccountID # a

DisabledIsolationWitness ==
    /\ Completed /\ call.off = {3} /\ ~accounts[1].disabled
    /\ result.TotalCount = 1 /\ Len(trade_details) = 1
    /\ trade_details[1].AccountID = 2

\* C10: after any sequence or interleaving of SetMasterAccount calls each
\* user has at most one account with is_master set.
SingleMaster ==
    \A u \in Users : Cardinality(GetMasterAccount(u)) <= 1

\* how often ev was handed to a handler
Deliveries(ev) == Cardinality({i \in 1..Len(delivered) : delivered[i] = ev})

\* C6: for every OrderEvent e and StopOrderEvent s with the same order id
\* where s comes while e's 1 s timer has not fired, exactly one combined event
\* (e carrying s) is delivered to the order handler, e is never delivered
\* alone, and s is never delivered alone.
CorrelationWindow ==
    \A s \in 1..Len(stopEvents) : \A e \in stopEvents[s].armed :
        /\ Deliveries(Delivery("order", e, s, 0)) = 1
        /\ Deliveries(Delivery("order", e, 0, 0)) = 0
        /\ Deliveries(Delivery("stop", 0, s, 0)) = 0

\* C7: an OrderEvent e for which no StopOrderEvent with the same order id has
\* come by the time its timer callback has run has been delivered to the order
\* handler exactly once, alone, and its pending entry is gone.
CorrelationTimeout ==
    \A e \in 1..Len(orderEvents) :
        (/\ timers[e] = "done"
         /\ \A s \in 1..Len(stopEvents) : e \notin stopEvents[s].armed \cup stopEvents[s].fired)
        => /\ Deliveries(Delivery("order", e, 0, 0)) = 1
           /\ \A i \in 1..Len(delivered) :
                 delivered[i].order = e => delivered[i].stop = 0
           /\ pendingOrders[orderEvents[e]] # e

\* the place in the stream of the frame an action was derived from: the
\* OrderEvent of an order action, the StopOrderEvent of a plan-order action,
\* the StopPlanOrderEvent of a change / cancel action
FrameOf(d) ==
    CHOOSE i \in 1..Len(frames) :
        frames[i] = (CASE d.handler = "order" ->
                             [channel |-> "push.personal.order", n |-> d.order]
                       [] d.handler = "stop" ->
                             [channel |-> "push.personal.stop.order", n |-> d.stop]
                       [] OTHER ->
                             [channel |-> "push.personal.stop.planorder", n |-> d.plan])

\* C12: on one push stream the actions reach the handlers (and through them
\* the engine) in the order in which the stream delivered the frames they are
\* derived from: an action invoked earlier comes from an earlier frame.
StreamOrder ==
    \A i, j \in 1..Len(delivered) :
        i < j => FrameOf(delivered[i]) < FrameOf(delivered[j])

\* C13: no two handler calls of one push stream, each of which runs its
\* action's fan-out to the end before it returns, are in progress at the
\* same time.
SerialFanOut == Cardinality(running) <= 1

\* C11: under every interleaving of GenerateToken and GetTokenForUser the
\* registry holds at most one token per user, and of the tokens issued to a
\* user the one GenerateToken returned last validates to that user while
\* every token issued to the user before it fails validation.
TokenRotation ==
    /\ \A u \in Users : Cardinality(TokensOf(u)) <= 1
    /\ \A i \in 1..Len(issued) :
          ValidateToken(issued[i].Token) =
              IF \E j \in (i + 1)..Len(issued) : issued[j].UserID = issued[i].UserID
              THEN 0
              ELSE issued[i].UserID

TokenRotationWitness ==
    /\ Len(issued) = 3
    /\ issued[1].UserID = 1 /\ issued[2].UserID = 2 /\ issued[3].UserID = 1
    /\ ValidateToken(1) = 0 /\ ValidateToken(2) = 2 /\ ValidateToken(3) = 1

\* the action in flight has returned to its caller with the error of a
\* master or slave-list read
ReadFailed ==
    /\ pc = "done"
    /\ call.err \in {"failed to get master account", "failed to get slave accounts"}

\* C14: an action that returns because the master account or the slave list
\* could not be read has started no slave task and has written no trade row,
\* no trade-detail row and no activity-log entry.
WholeActionFailure ==
    ReadFailed =>
        /\ result.Results = <<>> /\ rest.posts = 0
        /\ trades = <<>> /\ trade_details = <<>> /\ activity_log = <<>>

StopAllStopsAll ==
    out.op = "stop_all" =>
        /\ \A h \in out.before : ~sessionObjs[h].active
        /\ \A u \in Users : sessions[u] \notin out.before
        /\ \A i \in 1..out.opened : ~streams[i].open

\* C15: a mirror Start for a user whose active session is a websocket
\* session returns the mode-conflict error, leaves the map entry and every
\* Session object as they were (the websocket session stays active, with
\* mode websocket) and issues no activity log.
ModeConflict ==
    [][\A u \in Users :
         (/\ out'.op = "mirror_start" /\ out'.userID = u
          /\ sessions[u] # 0 /\ EntryName(u) = "websocket" /\ isActive(sessions[u]))
         => /\ out'.err = ErrOtherName /\ out'.token = 0
            /\ out'.logs = <<>>
            /\ UNCHANGED <<sessions, sessionObjs>>
            /\ (EntryName(u))' = "websocket" /\ (isActive(sessions[u]))']_vars

ModeConflictWitness ==
    /\ out.op = "mirror_start" /\ out.err = ErrOtherName /\ out.logs = <<>>
    /\ sessions[out.userID] # 0 /\ EntryName(out.userID) = "websocket"
    /\ isActive(sessions[out.userID])
    /\ connections[out.userID] # 0 /\ streams[connections[out.userID]].open

\* the push streams connected for a user
StreamsOf(u) == {i \in 1..Len(streams) : streams[i].userID = u}

MissingIds ==
    {call.orderIDs[i] : i \in {j \in 1..Len(call.orderIDs) :
                                 GetStopOrderSymbol(call.userID, call.orderIDs[j]) = ""}}

\* the symbols the requested order ids stand for, by the cache or by the
\* master's list `listed`
RequestedSymbols(listed) ==
    {GetStopOrderSymbol(call.userID, call.orderIDs[i]) : i \in 1..Len(call.orderIDs)}
    \cup {listed[call.orderIDs[i]] : i \in 1..Len(call.orderIDs)}

\* the lookup step of a CancelStopOrder with a requested id missing
CancelLookup == pc = "resolve" /\ call.kind = "cancel_stop_order" /\ MissingIds # {}

CancelCached ==
    /\ pc = "resolve" /\ call.kind = "cancel_stop_order" /\ call.orderIDs # <<>>
    /\ \A i \in 1..Len(call.orderIDs) :
          stopOrderCache[<<call.userID, call.orderIDs[i]>>] # ""

WritesOf(userID, orderID) ==
    {i \in 1..Len(cacheLog) :
        cacheLog[i].userID = userID /\ cacheLog[i].orders[orderID] # ""}

\* the symbol of the most recent committed write of the key ("" = never written)
LastWrite(userID, orderID) ==
    LET W == WritesOf(userID, orderID)
    IN IF W = {} THEN ""
       ELSE cacheLog[CHOOSE i \in W : \A j \in W : j <= i].orders[orderID]

\* C22: for every (user, order id) key of the symbol cache, GetStopOrderSymbol
\* returns the symbol of the most recent committed write of that key, be it
\* by SaveStopOrders or by SaveStopOrder, and no row when there was none.
CacheSoundness ==
    \A u \in Users, o \in OrderIds : GetStopOrderSymbol(u, o) = LastWrite(u, o)

CacheSoundnessWitness ==
    /\ Len(cacheLog) = 2
    /\ cacheLog[1].op = "SaveStopOrders" /\ cacheLog[1].userID = 1
    /\ cacheLog[1].orders[1] = "BTC_USDT"
    /\ cacheLog[2].op = "SaveStopOrder" /\ cacheLog[2].userID = 1
    /\ cacheLog[2].orders[1] = "ETH_USDT"
    /\ GetStopOrderSymbol(1, 1) = "ETH_USDT"

\* C23: a ProcessRequest whose token validates to a user without an active
\* mirror session returns no error and leaves the engine alone: no action
\* is started, no slave task runs, no trade, detail or log row is written.
SilentDrop ==
    [][\A t \in 1..MaxUsers + 1 :
          (/\ mirrorValidateToken(t) # 0
           /\ GetSession(mirrorValidateToken(t), "mirror").err # ""
           /\ out' # out
           /\ out'.op \in {"process", "dispatch"} /\ out'.token = t)
          => /\ out'.op = "process" /\ out'.err = ""
             /\ UNCHANGED <<engVars, sessVars, cfgVars>>]_vars

SilentDropWitness ==
    /\ out.op = "process" /\ out.err = "" /\ out.userID = 1
    /\ mirrorValidateToken(out.token) = 1
    /\ Len(sessionObjs) = 1 /\ 1 \in stopped
    /\ GetSession(1, "mirror").err = ErrNotFound
    /\ pc = "idle" /\ trades = <<>> /\ rest.posts = 0

\* C24: mirror Stop keeps the token.  No step removes an entry of the mirror
\* token table, so a token Start returned validates to its user after Stop
\* has returned; a user never has two tokens; and a Start that succeeds for a
\* user who has a token returns that token.
TokenRetained ==
    /\ [][\A mt \in mirrorTokens : mt \in mirrorTokens']_vars
    /\ [](\A u \in Users : Cardinality(MirrorTokensOf(u)) <= 1)
    /\ [][\A u \in Users :
            (/\ out' # out /\ out'.op = "mirror_start" /\ out'.userID = u
             /\ out'.err = "" /\ MirrorTokensOf(u) # {})
            => \E mt \in MirrorTokensOf(u) : out'.token = mt.Token]_vars

TokenRetainedWitness ==
    /\ out.op = "mirror_start" /\ out.err = "" /\ out.userID = 1 /\ out.token = 1
    /\ Len(sessionObjs) = 2 /\ 1 \in stopped /\ isActive(2)
    /\ mirrorValidateToken(1) = 1 /\ Cardinality(mirrorTokens) = 1

\* the step on which HandleMirrorAPI answers a request carrying token t
Answered(t, rd) == resp'.n = resp.n + 1 /\ resp'.token = t /\ resp'.readable = rd

\* C25 as stated: 200 with body {"success":true} for every request whose
\* token validates, also when the mirror session is inactive; 401 when the
\* token is missing or invalid; 400 when the body of a request with a valid
\* token cannot be read.
IngressAlwaysSuccess ==
    [][\A t \in 0..MaxTokens, rd \in BOOLEAN :
          Answered(t, rd) =>
            IF t = 0 \/ ValidateToken(t) = 0 THEN resp'.status = 401
            ELSE IF ~rd THEN resp'.status = 400
            ELSE resp'.status = 200 /\ resp'.body = SuccessBody]_vars

\* C25, amended: 401 when the token is missing or invalid; for a valid token
\* whose user has no active mirror session, 200 with the body
\* {"success":true,"ignored":true}, the request body unread and nothing
\* spawned; for a valid token with an active session, 400 when the body
\* cannot be read, else 200 with {"success":true} and the request handed to
\* a goroutine.  The handler itself never touches the engine.
IngressAnswers ==
    [][\A t \in 0..MaxTokens, rd \in BOOLEAN :
          Answered(t, rd) =>
            /\ UNCHANGED <<engVars, sessVars, cfgVars>>
            /\ IF t = 0 \/ ValidateToken(t) = 0
               THEN resp'.status = 401 /\ resp'.spawned = 0
               ELSE IF GetSession(ValidateToken(t), "mirror").err # ""
               THEN /\ resp'.status = 200 /\ resp'.body = IgnoredBody
                    /\ resp'.spawned = 0
               ELSE IF ~rd
               THEN resp'.status = 400 /\ resp'.spawned = 0
               ELSE /\ resp'.status = 200 /\ resp'.body = SuccessBody
                    /\ resp'.spawned = sessions[ValidateToken(t)]]_vars

IngressAnswersWitness ==
    /\ resp.n = 2 /\ resp.status = 200 /\ resp.body = IgnoredBody
    /\ ValidateToken(resp.token) = 1 /\ sessions[1] = 0 /\ 1 \in stopped
    /\ call.kind = "open_position" /\ call.session = 1 /\ pc = "fanout"

\* the step on which the push service handles a frame of the channel
FrameHandled(channel) == feed'.n = feed.n + 1 /\ feed'.channel = channel

\* the step starts an action of the kind for the symbol, through the gate
Invokes(kind, symbol) ==
    /\ call'.kind = kind /\ call'.symbol = symbol
    /\ pc' \in {"fanout", "resolve", "done"}
    /\ result' = NoResult /\ trades' = <<>> /\ rest' = NoRest

\* C26: a push.personal.position frame with state 3 results in exactly one
\* ClosePosition for its symbol through the session; a frame with any other
\* state results in no action.
PositionFrameCloses ==
    [][FrameHandled("push.personal.position") =>
         IF feed'.arg = 3
         THEN Invokes("close_position", feed'.symbol)
         ELSE UNCHANGED <<engVars, cfgVars>>]_vars

UnmatchedStopFrame ==
    /\ Len(stopEvents') = Len(stopEvents) + 1
    /\ pendingOrders[stopEvents'[Len(stopEvents')].orderID] = 0

\* C28: a StopOrderEvent whose order id has no pending OrderEvent when it is
\* handled is delivered once, to the stop-order handler, which starts one
\* PlacePlanOrder for the frame's symbol; it is never delivered to the order
\* handler, and no action starts but on a delivery.
UnmatchedStopPlaces ==
    /\ [][UnmatchedStopFrame =>
            /\ delivered' = Append(delivered,
                                   Delivery("stop", 0, Len(stopEvents'), 0))
            /\ Invokes("place_plan_order", feed'.symbol)]_vars
    /\ [][~UnmatchedStopFrame
            => \A i \in (Len(delivered) + 1)..Len(delivered') :
                  delivered'[i].handler # "stop"]_vars
    /\ [][(pc \in {"idle", "done"} /\ pc' \notin {"idle", "done"})
            => Len(delivered') = Len(delivered) + 1]_vars
    /\ [](\A k \in 1..Len(stopEvents) :
            Cardinality({i \in 1..Len(delivered) : delivered[i].stop = k}) = 1)

\* the OrderEvent of id 1 went out alone on its timer; the StopOrderEvent of
\* the same id that came after it reached the stop-order handler and its
\* PlacePlanOrder has completed on both slaves
UnmatchedStopPlacesWitness ==
    /\ orderEvents = <<1>> /\ timers = <<"done">>
    /\ Len(stopEvents) = 1 /\ stopEvents[1].orderID = 1
    /\ delivered = <<Delivery("order", 1, 0, 0), Delivery("stop", 0, 1, 0)>>
    /\ Completed /\ call.kind = "place_plan_order" /\ call.symbol = feed.symbol
    /\ result.TotalCount = 2 /\ running = {<<Reader, 2>>} /\ pendingMu = Reader

\* the leverages the slave has configured for the side of the task's request
ConfiguredFor(side) ==
    IF task.api # "ok" THEN {}
    ELSE {task.leverages[i].Leverage : i \in
            {j \in 1..Len(task.leverages) :
                task.leverages[j].PositionType = (IF side = 1 THEN 1 ELSE 2)}}

\* C29: a slave task of OpenPosition that places an order sends a leverage
\* the slave has configured for the requested side, whatever leverage the
\* request carries; when the slave's leverage cannot be read (the read
\* fails or lists nothing for the side) no order is placed and the slave's
\* result is a failure.
SlaveLeverage ==
    task.n > 0 =>
        /\ task.posts = 1 =>
              /\ task.order.leverage \in ConfiguredFor(task.req.side)
              /\ task.order.side = task.req.side
              /\ task.order.symbol = task.req.symbol
        /\ ConfiguredFor(task.req.side) = {} =>
              /\ task.posts = 0 /\ task.order = NoOrder
              /\ ~task.res.Success /\ task.res.Error # ""

\* a short opened for a request that carries leverage 5 on a slave whose
\* short side is configured with 20: the order placed carries 20
SlaveLeverageWitness ==
    /\ task.n = 1 /\ task.req.side = 3 /\ task.req.leverage = 5
    /\ task.leverages = <<[PositionType |-> 1, Leverage |-> 5],
                          [PositionType |-> 2, Leverage |-> 20]>>
    /\ task.posts = 1 /\ task.res.Success /\ task.order.leverage = 20

\* C30: while a mutex of the session map, the token registry, the
\* pending-order table or the push-connection map is held, no I/O is
\* performed; for the pending-order table: between two states in which
\* pendingMu is held no request goes to an exchange and no row is written.
CriticalSectionsNoIO ==
    [][(pendingMu # Free /\ pendingMu' # Free) =>
          /\ rest'.posts = rest.posts /\ rest'.masterReads = rest.masterReads
          /\ UNCHANGED <<trades, trade_details, activity_log, stopOrderCache>>]_vars

\* the connected push streams of a user whose handlers reach an active session
LiveStreamsOf(u) ==
    {i \in StreamsOf(u) : streams[i].open /\ isActive(streams[i].session)}

\* C31: for every user at most one push stream is connected at any time:
\* no two live streams replicate the same master's events through the
\* session, under concurrent SetMode calls too.
OneStreamPerUser == \A u \in Users : Cardinality(LiveStreamsOf(u)) <= 1

\* the calls of the order handler that carry OrderEvent e
OrderDeliveries(e) ==
    {i \in 1..Len(delivered) : delivered[i].handler = "order" /\ delivered[i].order = e}

\* C32: every OrderEvent is delivered to the order handler exactly once,
\* alone or combined with its stop, also when another OrderEvent with the
\* same order id comes while it is pending: never twice, and once when its
\* timer has been stopped or its callback has run.
OrderDeliveredOnce ==
    \A e \in 1..Len(orderEvents) :
        /\ Cardinality(OrderDeliveries(e)) <= 1
        /\ timers[e] \in {"done", "stopped"} => Cardinality(OrderDeliveries(e)) = 1

\* C33: StopSession(u, m) affects only a session whose mode is m: when u's
\* session has another mode it stays in the map and active, and no
\* copy_trading_stop log is issued.
StopOnlyOwnMode ==
    [][\A u \in Users :
         (/\ ret'.op = "stop" /\ ret'.userID = u
          /\ sessions[u] # 0 /\ EntryName(u) # ret'.name)
         => /\ UNCHANGED <<sessions, sessionObjs>>
            /\ ret'.logs = <<>>]_vars

\* C34: Connect always returns: when the login write has failed, Connect's
\* call of Disconnect can go on (and Connect then returns the error); c.mu
\* is free when Connect has returned.
ConnectReturns ==
    \A c \in Clients :
        /\ clients[c].pc = "disconnect" => ENABLED Disconnect(c, "connect")
        /\ clients[c].pc = "returned" => clients[c].mu = ""

\* C35: a SetMode call that returns an error leaves the user's mode as the
\* call found it: the step that ends a request with an error, no other
\* request being in progress, ends it in the mode the request read at its
\* start.
SetModeErrorKeepsMode ==
    [][\A r \in 1..MaxRequests, u \in Users :
         (/\ modeReqs[r].pc # "" /\ modeReqs[r].userID = u
          /\ \A q \in 1..MaxRequests \ {r} : modeReqs[q] = NoMode
          /\ out.pc = ""
          /\ modeReqs'[r] = NoMode /\ out'.err # "")
         => getCurrentMode(u)' = modeReqs[r].current]_vars

\* C36: an action that has returned an error has written no trade row and no
\* trade-detail row.
ErrorMeansNoRows ==
    (pc = "done" /\ call.err # "") => (trades = <<>> /\ trade_details = <<>>)

\* the cancel tasks the slave account a has received in the action
CancelTasksOf(a) == {i \in 1..Len(result.Results) : result.Results[i].AccountID = a}

\* the enabled slaves of the user of the action
SlavesOfCall ==
    {GetSlaveAccounts(call.userID, FALSE)[i] :
        i \in 1..Len(GetSlaveAccounts(call.userID, FALSE))}

\* a CancelStopOrder has returned without an error
CancelCompleted == Completed /\ call.kind = "cancel_stop_order"

\* C37 as stated: in a CancelStopOrder each slave receives at most one cancel
\* task per distinct symbol the order ids resolve to.
CancelOncePerSymbol ==
    CancelCompleted =>
        \A a \in SlavesOfCall :
            Cardinality(CancelTasksOf(a))
                <= Cardinality({symbols[k] : k \in 1..Len(symbols)})

\* C37, amended: the lookup of a CancelStopOrder yields one symbol entry per
\* requested id found in the cache and one per listed master order whose id
\* is among the ids not found, equal symbols included; the action that
\* completes has given each enabled slave one cancel task per entry, so the
\* fan-out of a symbol runs once per order id that resolves to it.
CancelOncePerOrder ==
    /\ [][(pc = "resolve" /\ call.kind = "cancel_stop_order" /\ pc' = "fanout")
           => Len(symbols') =
                Cardinality({i \in 1..Len(call.orderIDs) :
                                stopOrderCache[<<call.userID, call.orderIDs[i]>>] # ""})
                + Cardinality({o \in OrderIds :
                                /\ rest'.listed[o] # ""
                                /\ stopOrderCache[<<call.userID, o>>] = ""
                                /\ \E i \in 1..Len(call.orderIDs) :
                                       call.orderIDs[i] = o})]_vars
    /\ [](CancelCompleted =>
            \A a \in SlavesOfCall : Cardinality(CancelTasksOf(a)) = Len(symbols))

CancelOncePerOrderWitness ==
    /\ CancelCompleted /\ call.orderIDs = <<1, 2>>
    /\ symbols = <<"BTC_USDT", "BTC_USDT">>
    /\ SlavesOfCall = {2}
    /\ Cardinality(CancelTasksOf(2)) = 2

\* C38 as stated: once the client is disconnected it calls no handler: no
\* step taken while the client is not active adds a handler call.
NoHandlerAfterDisconnect ==
    [][~clients[1].active => delivered' = delivered]_vars

\* C38, amended: Disconnect ends the reading of frames but leaves the timers
\* and the pending-order table as they are: no OrderEvent is taken in while
\* the connection is closed, the step that disconnects changes no timer, no
\* table entry and calls no handler, and the callback of a fired timer whose
\* entry is still in the table calls the order handler with that order,
\* whether the client is active or not.
DisconnectKeepsTimers ==
    /\ [][~clients[1].conn => orderEvents' = orderEvents]_vars
    /\ [][(clients[1].active /\ ~clients'[1].active)
           => UNCHANGED <<timers, pendingOrders, delivered>>]_vars
    /\ [][\A e \in 1..Len(timers) :
            (timers[e] = "fired" /\ timers'[e] = "done"
                /\ pendingOrders[orderEvents[e]] # 0)
            => /\ Len(delivered') = Len(delivered) + 1
               /\ delivered'[Len(delivered')] =
                      Delivery("order", pendingOrders[orderEvents[e]], 0, 0)
               /\ pendingOrders'[orderEvents[e]] = 0]_vars

\* the client was stopped after its only Connect, and the order taken in
\* before has been handed to the order handler after the disconnect
DisconnectKeepsTimersWitness ==
    /\ clients[1].calls = 1 /\ clients[1].err = "stopped" /\ ~clients[1].active
    /\ clients[1].late
    /\ Len(orderEvents) = 1 /\ timers = <<"done">>
    /\ delivered = <<Delivery("order", 1, 0, 0)>>

\* the tokens GetTokenForUser calls have generated for the user: each of
\* these calls found no token of the user in its scan
GotOf(userID) == {i \in 1..Len(got) : got[i].UserID = userID}

\* C39: the GetTokenForUser calls that find no token of the user all return
\* the same token, and it validates to the user: no two of them have
\* generated a token each, and the token one of them has returned validates
\* to the user unless a later GenerateToken call of a handler replaced it.
GetTokenSameValid ==
    \A u \in Users :
        /\ Cardinality(GotOf(u)) <= 1
        /\ \A i \in GotOf(u) :
              \/ ValidateToken(got[i].Token) = u
              \/ \E k \in 1..Len(issued) :
                    /\ issued[k].UserID = u /\ issued[k].Token > got[i].Token
                    /\ \A j \in GotOf(u) : got[j].Token # issued[k].Token

\* C40: once a trade-detail write of saveTrade has failed, the trade is given
\* no status, saveTrade does not go on to the activity log, and the action
\* returns the error of the detail writes.
SaveTradeReportsFailure ==
    save.failed # {} =>
        /\ pc # "log"
        /\ \A t \in 1..Len(trades) : trades[t].Status = ""
        /\ pc = "done" => call.err = "failed to save trade details"

=============================================================================
